---- MODULE Spec2Model ----
(***************************************************************************)
(* Pulse schedules (qiskit.pulse.schedule.Schedule and the interval        *)
(* helpers of qiskit.pulse.timing) and the circuit-to-schedule passes of   *)
(* qiskit.scheduler.methods.basic.                                         *)
(*                                                                         *)
(* A Schedule is a record; the per-channel interval lists it owns are      *)
(* Python list objects, modelled as cells of `heap` (a list is named by    *)
(* its index, 0 = the channel is not a key of _timeslots), so that two     *)
(* schedules sharing one list object is a state the model can be in.       *)
(***************************************************************************)
EXTENDS Integers, Sequences, FiniteSets, TLC

VARIABLES
    heap,        \* every interval list object: Seq(Seq(<<start, stop>>))
    store,       \* the Schedule objects (in TsSpec: the tables of the
                 \* TimeslotCollections) the caller holds, oldest first
    last,        \* the last call: operation, operands, outcome
    circuit,     \* QuantumCircuit.data: Seq of [kind, name, qubits]
    meas_map,    \* schedule_config.meas_map: qubit -> measurement group
    cmd_def,     \* schedule_config.cmd_def: the (name, qubits) pairs defined
    pc,          \* position of the scheduling run
    defs,        \* circ_pulse_defs returned by translate_gates_to_pulse_defs
    k,           \* number of circ_pulse_defs the running pass has processed
    avail,       \* qubit_time_available / qubit_available_until
    sched,       \* the Schedule the running pass is building
    asap_start,  \* def index -> start time given by as_soon_as_possible
    alap_start,  \* def index -> start time given by as_late_as_possible
    asap_sched,  \* the Schedule as_soon_as_possible returned
    raised       \* the exception that ended the scheduling run, if any

algvars == <<store, last>>
schedvars == <<circuit, meas_map, cmd_def, pc, defs, k, avail, sched,
               asap_start, alap_start, asap_sched, raised>>
vars == <<heap, store, last, circuit, meas_map, cmd_def, pc, defs, k, avail,
          sched, asap_start, alap_start, asap_sched, raised>>

-----------------------------------------------------------------------------
(* Bounds of the model *)

\* Largest start time a caller passes to the constructor, insert, union, shift.
MaxTime == 2
\* Number of Schedule objects a caller builds in one behaviour.
MaxStore == 3
\* Largest number of (start_time, schedule) pairs passed in one call.
MaxPairs == 2
\* Longest generated circuit.
MaxCircLen == 3
\* Operations of a circuit handed to the entry point.
MaxEntryLen == 2

\* Positional values passed to get and pop.
MaxParams == 2
\* Calls a caller makes on one PulseDefaults object.
MaxCalls == 3

-----------------------------------------------------------------------------
(* Generic helpers *)

Max(a, b) == IF a >= b THEN a ELSE b
Min(a, b) == IF a <= b THEN a ELSE b

SetMax(S) == IF S = {} THEN 0
             ELSE LET x == CHOOSE y \in S : \A z \in S : y >= z IN x

SetMin(S) == IF S = {} THEN 0
             ELSE LET x == CHOOSE y \in S : \A z \in S : y <= z IN x

\* list.insert(index, x) with a 0-based index
InsertAt(list, index, x) ==
    SubSeq(list, 1, index) \o <<x>> \o SubSeq(list, index + 1, Len(list))

-----------------------------------------------------------------------------
(* Channels *)

\* A channel is <<prefix, index>>; equality is by class and index.
d0 == <<"d", 0>>
d1 == <<"d", 1>>
u0 == <<"u", 0>>
m0 == <<"m", 0>>
m1 == <<"m", 1>>
a0 == <<"a", 0>>
a1 == <<"a", 1>>

\* The order in which a dict of channels is iterated in the model.
ChannelSeq == <<d0, d1, u0, m0, m1, a0, a1>>
Channels == {ChannelSeq[i] : i \in 1..Len(ChannelSeq)}

ChanIndex(c) == c[2]

-----------------------------------------------------------------------------
(* Intervals: timing.py *)

\* The return value that stands for a raised PulseError.
PulseError == -1

\* _overlaps(first, second)
overlaps(first, second) ==
    IF first[1] = second[1] /\ second[1] = second[2]
    THEN FALSE
    ELSE LET f == IF first[1] > second[1] THEN second ELSE first
             s == IF first[1] > second[1] THEN first ELSE second
         IN s[1] < f[2]

\* _insertion_index(intervals, new_interval, index): the 0-based index, or
\* PulseError.
RECURSIVE insertion_index(_, _, _)
insertion_index(intervals, new_interval, index) ==
    IF Len(intervals) = 0 THEN index
    ELSE IF Len(intervals) = 1 THEN
        IF overlaps(intervals[1], new_interval) THEN PulseError
        ELSE IF new_interval[1] < intervals[1][1] THEN index ELSE index + 1
    ELSE
        LET mid_idx == Len(intervals) \div 2 IN
        IF new_interval[1] < intervals[mid_idx + 1][1]
        THEN insertion_index(SubSeq(intervals, 1, mid_idx), new_interval, index)
        ELSE insertion_index(SubSeq(intervals, mid_idx + 1, Len(intervals)),
                             new_interval, index + mid_idx)

ShiftIntervals(list, time) ==
    [i \in 1..Len(list) |-> <<list[i][1] + time, list[i][2] + time>>]

-----------------------------------------------------------------------------
(* Schedule components *)

\* A leaf Instruction: one command on a set of channels, occupying
\* [0, duration) on each of them.
Leaf(cmd, duration, channels) ==
    [leaf |-> TRUE, cmd |-> cmd, duration |-> duration, channels |-> channels,
     buffer |-> 0]

NoTimeslots == [c \in Channels |-> 0]

\* Schedule(): _duration = 0, _timeslots = {}, no children, _buffer = 0
EmptySchedule ==
    [leaf |-> FALSE, children |-> <<>>, ts |-> NoTimeslots, duration |-> 0,
     buffer |-> 0]

\* component.channels
ChannelsOf(s) ==
    IF s.leaf THEN s.channels ELSE {c \in Channels : s.ts[c] # 0}

\* component._timeslots[channel] read in heap h
TsOf(h, s, c) ==
    IF s.leaf THEN (IF c \in s.channels THEN << <<0, s.duration>> >> ELSE <<>>)
    ELSE IF s.ts[c] = 0 THEN <<>> ELSE h[s.ts[c]]

InChannels(S) == SelectSeq(ChannelSeq, LAMBDA c : c \in S)

-----------------------------------------------------------------------------
(* Schedule._add_timeslots: schedule.py *)

\* The loop over channel_intervals when the channel is already a key:
\* [ok, list], list being the receiver's list as the loop left it.
RECURSIVE merge_intervals(_, _, _)
RECURSIVE merge_at(_, _, _, _)
merge_intervals(existing, channel_intervals, idx) ==
    IF idx > Len(channel_intervals) THEN [ok |-> TRUE, list |-> existing]
    ELSE IF channel_intervals[idx][1] >= existing[Len(existing)][2]
    THEN [ok |-> TRUE,
          list |-> existing \o SubSeq(channel_intervals, idx,
                                      Len(channel_intervals))]
    ELSE merge_at(existing, channel_intervals, idx,
                  insertion_index(existing, channel_intervals[idx], 0))

\* The rest of an iteration once insertion_index has returned `index`.
merge_at(existing, channel_intervals, idx, index) ==
    IF index = PulseError THEN [ok |-> FALSE, list |-> existing]
    ELSE merge_intervals(InsertAt(existing, index, channel_intervals[idx]),
                         channel_intervals, idx + 1)

\* As new_channel_list, but an unshifted list of a Schedule is stored as it
\* is, without a copy.
new_channel_list_shared(h, schedule, channel, time) ==
    IF time = 0 /\ ~schedule.leaf
    THEN [heap |-> h, id |-> schedule.ts[channel]]
    ELSE [heap |-> Append(h, ShiftIntervals(TsOf(h, schedule, channel), time)),
          id |-> Len(h) + 1]

\* The list object stored under a channel that was not yet a key: the list
\* comprehension builds a new list whatever `time` is.  [heap, id]
new_channel_list(h, schedule, channel, time) ==
    [heap |-> Append(h, ShiftIntervals(TsOf(h, schedule, channel), time)),
     id |-> Len(h) + 1]

\* The loop over schedule.channels.  [ok, heap, ts]
RECURSIVE add_channels(_, _, _, _, _)
RECURSIVE add_new_channel(_, _, _, _, _)
RECURSIVE add_to_channel(_, _, _, _, _, _)
add_channels(h, ts, time, schedule, chans) ==
    IF chans = <<>> THEN [ok |-> TRUE, heap |-> h, ts |-> ts]
    ELSE IF ts[Head(chans)] = 0
    THEN add_new_channel(ts, time, schedule, chans,
                         new_channel_list(h, schedule, Head(chans), time))
    ELSE add_to_channel(h, ts, time, schedule, chans,
             merge_intervals(h[ts[Head(chans)]],
                 ShiftIntervals(TsOf(h, schedule, Head(chans)), time), 1))

\* The channel was not a key: list object n is stored under it.
add_new_channel(ts, time, schedule, chans, n) ==
    add_channels(n.heap, [ts EXCEPT ![Head(chans)] = n.id], time, schedule,
                 Tail(chans))

\* The channel was a key: its list was updated in place up to the raise.
add_to_channel(h, ts, time, schedule, chans, m) ==
    IF m.ok
    THEN add_channels([h EXCEPT ![ts[Head(chans)]] = m.list], ts, time,
                      schedule, Tail(chans))
    ELSE [ok |-> FALSE, heap |-> [h EXCEPT ![ts[Head(chans)]] = m.list],
          ts |-> ts]

\* The receiver once the loop over the channels returned r.
timeslots_added(self, time, schedule, r) ==
    [ok |-> r.ok, heap |-> r.heap,
     sched |-> [self EXCEPT
                  !.duration = Max(self.duration, time + schedule.duration),
                  !.ts = r.ts]]

\* self._add_timeslots(time, schedule).  [ok, heap, sched]
add_timeslots(h, self, time, schedule) ==
    timeslots_added(self, time, schedule,
        add_channels(h, self.ts, time, schedule,
                     InChannels(ChannelsOf(schedule))))

-----------------------------------------------------------------------------
(* Schedule: constructor, properties, composition *)

\* Schedule(*schedules) given as (start_time, schedule) pairs.
RECURSIVE construct(_, _, _, _)
RECURSIVE construct_next(_, _, _, _)
construct(h, self, pairs, i) ==
    IF i > Len(pairs)
    THEN [ok |-> TRUE, heap |-> h,
          sched |-> [self EXCEPT
                       !.children = pairs,
                       !.buffer = SetMax({pairs[j][2].buffer :
                                              j \in 1..Len(pairs)})]]
    ELSE construct_next(self, pairs, i,
                        add_timeslots(h, self, pairs[i][1], pairs[i][2]))

\* The constructor's loop once _add_timeslots returned a.
construct_next(self, pairs, i, a) ==
    IF a.ok THEN construct(a.heap, a.sched, pairs, i + 1)
    ELSE [ok |-> FALSE, heap |-> a.heap, sched |-> self]

NewSchedule(h, pairs) == construct(h, EmptySchedule, pairs, 1)

\* Schedule._instructions(time): the leaves in tree order.
RECURSIVE tree_instructions(_, _)
RECURSIVE children_instructions(_, _, _)
tree_instructions(s, time) ==
    IF s.leaf THEN << <<time, s>> >>
    ELSE children_instructions(s.children, time, 1)
children_instructions(children, time, i) ==
    IF i > Len(children) THEN <<>>
    ELSE tree_instructions(children[i][2], time + children[i][1])
         \o children_instructions(children, time, i + 1)

\* The sort key of Schedule.instructions.
MinChanIndex(inst) == SetMin({ChanIndex(c) : c \in inst.channels})
InstKey(p) == <<p[1], p[2].duration, MinChanIndex(p[2])>>
KeyLess(x, y) ==
    \/ x[1] < y[1]
    \/ x[1] = y[1] /\ x[2] < y[2]
    \/ x[1] = y[1] /\ x[2] = y[2] /\ x[3] < y[3]

\* sorted(seq, key=key): stable.
RECURSIVE SortedByKey(_)
SortedByKey(seq) ==
    IF seq = <<>> THEN <<>>
    ELSE LET rest == SortedByKey(SubSeq(seq, 1, Len(seq) - 1))
             x == seq[Len(seq)]
             n == Cardinality({j \in 1..Len(rest) :
                                 ~KeyLess(InstKey(x), InstKey(rest[j]))})
         IN InsertAt(rest, n, x)

\* Schedule.instructions
instructions(s) == SortedByKey(tree_instructions(s, 0))

\* Schedule.ch_stop_time(*channels)
ch_stop_time(h, s, channels) ==
    LET chan_intervals == {c \in channels : s.ts[c] # 0} IN
    SetMax({h[s.ts[c]][Len(h[s.ts[c]])][2] : c \in chan_intervals})

\* Schedule.ch_start_time(*channels)
ch_start_time(h, s, channels) ==
    LET chan_intervals == {c \in channels : s.ts[c] # 0} IN
    SetMin({h[s.ts[c]][1][1] : c \in chan_intervals})

\* As union_children, but the children of a Schedule argument are taken
\* last to first.
union_children_reversed(self, other, a) ==
    IF ~a.ok THEN [ok |-> FALSE, heap |-> a.heap, sched |-> self]
    ELSE [ok |-> TRUE, heap |-> a.heap,
          sched |-> [a.sched EXCEPT
              !.buffer = Max(self.buffer, other[2].buffer),
              !.children =
                  IF other[2].leaf THEN self.children \o <<other>>
                  ELSE self.children \o
                       [j \in 1..Len(other[2].children) |->
                           <<other[2].children[
                                 Len(other[2].children) + 1 - j][1] + other[1],
                             other[2].children[
                                 Len(other[2].children) + 1 - j][2]>>]]]

\* As union_children, but a Schedule argument becomes one child.
union_children_nested(self, other, a) ==
    IF ~a.ok THEN [ok |-> FALSE, heap |-> a.heap, sched |-> self]
    ELSE [ok |-> TRUE, heap |-> a.heap,
          sched |-> [a.sched EXCEPT
              !.buffer = Max(self.buffer, other[2].buffer),
              !.children = self.children \o <<other>>]]

\* As union_children, but the children of a Schedule argument keep their
\* own offsets.
union_children_unshifted(self, other, a) ==
    IF ~a.ok THEN [ok |-> FALSE, heap |-> a.heap, sched |-> self]
    ELSE [ok |-> TRUE, heap |-> a.heap,
          sched |-> [a.sched EXCEPT
              !.buffer = Max(self.buffer, other[2].buffer),
              !.children =
                  IF other[2].leaf THEN self.children \o <<other>>
                  ELSE self.children \o other[2].children]]

\* _union once _add_timeslots returned a: the children are recorded.
union_children(self, other, a) ==
    IF ~a.ok THEN [ok |-> FALSE, heap |-> a.heap, sched |-> self]
    ELSE [ok |-> TRUE, heap |-> a.heap,
          sched |-> [a.sched EXCEPT
              !.buffer = Max(self.buffer, other[2].buffer),
              !.children =
                  IF other[2].leaf THEN self.children \o <<other>>
                  ELSE self.children \o
                       [j \in 1..Len(other[2].children) |->
                           <<other[2].children[j][1] + other[1],
                             other[2].children[j][2]>>]]]

\* Schedule._union(other), on a schedule no caller holds yet.
union_inplace(h, self, other) ==
    union_children(self, other, add_timeslots(h, self, other[1], other[2]))

RECURSIVE union_all(_, _, _, _)
RECURSIVE union_next(_, _, _)
union_all(h, new_sched, pairs, i) ==
    IF i > Len(pairs) THEN [ok |-> TRUE, heap |-> h, sched |-> new_sched]
    ELSE union_next(pairs, i, union_inplace(h, new_sched, pairs[i]))

\* The loop of union once _union returned u.
union_next(pairs, i, u) ==
    IF u.ok THEN union_all(u.heap, u.sched, pairs, i + 1) ELSE u

\* Schedule.union(*schedules)
union(h, self, pairs) ==
    union_all(h, EmptySchedule, << <<0, self>> >> \o pairs, 1)

\* As shift, but a negative time is taken as 0.
shift_clamped(h, self, time) == NewSchedule(h, << <<Max(time, 0), self>> >>)

\* Schedule.shift(time)
shift(h, self, time) == NewSchedule(h, << <<time, self>> >>)

\* Schedule.insert(start_time, schedule, buffer)
insert(h, self, start_time, schedule, buffer) ==
    LET t == IF buffer /\ schedule.buffer # 0 /\ start_time > 0
             THEN start_time + self.buffer ELSE start_time
    IN union(h, self, << <<t, schedule>> >>)

\* As append, but the time is the stop time over all channels of self.
append_all_channels(h, self, schedule) ==
    insert(h, self, ch_stop_time(h, self, ChannelsOf(self)), schedule, TRUE)

\* Schedule.append(schedule, buffer=True)
append(h, self, schedule) ==
    LET common_channels == ChannelsOf(self) \cap ChannelsOf(schedule)
        time == ch_stop_time(h, self, common_channels)
    IN insert(h, self, time, schedule, TRUE)

\* Schedule.__eq__(other)
schedule_eq(self, other) ==
    /\ ChannelsOf(self) = ChannelsOf(other)
    /\ Len(instructions(self)) = Len(instructions(other))
    /\ \A idx \in 1..Len(instructions(other)) :
          instructions(self)[idx] = instructions(other)[idx]

\* Schedule.flatten()
flatten(h, self) == NewSchedule(h, instructions(self))

\* An optional argument: left out (None), or given with a collection.
NoArg == [given |-> FALSE, value |-> {}]
Arg(value) == [given |-> TRUE, value |-> value]

\* `if channels:`, `if intervals:`: None and the empty collection are falsy.
Truthy(arg) == arg.given /\ arg.value # {}

\* only_channels(channels)(time_inst)
only_channels(channels, time_inst) == time_inst[2].channels \cap channels # {}

\* only_intervals(ranges)(time_inst)
only_intervals(ranges, time_inst) ==
    \E i \in ranges :
        i[1] <= time_inst[1] /\ time_inst[1] + time_inst[2].duration <= i[2]

\* _filter(filter_funcs) once flatten returned f.
filter_flat(f, channels, intervals) ==
    IF ~f.ok THEN f
    ELSE NewSchedule(f.heap,
             SelectSeq(f.sched.children,
                       LAMBDA p :
                           /\ Truthy(channels) =>
                                  only_channels(channels.value, p)
                           /\ Truthy(intervals) =>
                                  only_intervals(intervals.value, p)))

\* Schedule.filter(channels=channels, intervals=intervals)
filter(h, self, channels, intervals) ==
    IF ~Truthy(channels) /\ ~Truthy(intervals)
    THEN [ok |-> TRUE, heap |-> h, sched |-> self]
    ELSE filter_flat(flatten(h, self), channels, intervals)

-----------------------------------------------------------------------------
(* Composition calls made by a caller: specification Spec *)

\* The instructions a caller composes.
P1 == Leaf("p1", 1, {d0})
P2 == Leaf("p2", 2, {d0})
Q1 == Leaf("q1", 1, {d1})
\* An instruction on a channel that was made with buffer=1.
B1 == [Leaf("b1", 1, {d1}) EXCEPT !.buffer = 1]
AlgLeaves == {P1, P2, Q1, B1}

Times == 0..MaxTime
Held == {store[i] : i \in 1..Len(store)}
Fragments == AlgLeaves \cup Held
\* Schedule(), Schedule(f) and Schedule((t, f))
ConstructorArgs == {<<>>} \cup {<<p>> : p \in Times \X Fragments}
\* union((t1, x1), ..., (tn, xn)) of instructions, and union((t, s)) of a
\* schedule the caller holds
UnionArgs ==
    UNION {[1..n -> Times \X AlgLeaves] : n \in 1..MaxPairs}
        \cup {<<p>> : p \in Times \X Held}

\* What a caller can observe of a schedule component in heap h.
View(h, s) ==
    [timeslots |-> [c \in Channels |-> TsOf(h, s, c)],
     duration |-> s.duration,
     children |-> IF s.leaf THEN <<>> ELSE s.children,
     instructions |-> tree_instructions(s, 0)]

NoCall == [op |-> "none", ok |-> TRUE, self |-> 0, args |-> <<>>,
           self_before |-> <<>>, before |-> <<>>, result |-> 0]

\* A call returned r: the caller keeps the result; a raised PulseError
\* leaves the caller with what it had.
Returned(op, self, args, r) ==
    /\ heap' = r.heap
    /\ store' = IF r.ok THEN Append(store, r.sched) ELSE store
    /\ last' = [op |-> op, ok |-> r.ok, self |-> self, args |-> args,
                self_before |-> IF self = 0 THEN <<>>
                                ELSE View(heap, store[self]).timeslots,
                before |-> [i \in 1..Len(args) |->
                               View(heap, args[i][2]).timeslots],
                result |-> IF r.ok THEN r.sched ELSE 0]
    /\ UNCHANGED schedvars

\* A PulseError is not caught: the caller's run ends with it.
CanCall == last.ok /\ Len(store) < MaxStore

CallConstruct ==
    /\ CanCall
    /\ \E pairs \in ConstructorArgs :
         Returned("Schedule", 0, pairs, NewSchedule(heap, pairs))

CallInsert ==
    /\ CanCall
    /\ \E i \in 1..Len(store), t \in Times, f \in Fragments :
         Returned("insert", i, << <<t, f>> >>,
                  insert(heap, store[i], t, f, FALSE))

CallUnion ==
    /\ CanCall
    /\ \E i \in 1..Len(store), pairs \in UnionArgs :
         Returned("union", i, pairs, union(heap, store[i], pairs))

CallAppend ==
    /\ CanCall
    /\ \E i \in 1..Len(store), f \in Fragments :
         Returned("append", i, << <<0, f>> >>, append(heap, store[i], f))

\* shift takes any time, a negative one included.
ShiftTimes == (0 - 1)..MaxTime

CallShift ==
    /\ CanCall
    /\ \E i \in 1..Len(store), t \in ShiftTimes :
         Returned("shift", i, << <<t, store[i]>> >>, shift(heap, store[i], t))

CallFlatten ==
    /\ CanCall
    /\ \E i \in 1..Len(store) :
         Returned("flatten", i, <<>>, flatten(heap, store[i]))

\* The arguments a caller gives to filter.
FilterChannels == {NoArg} \cup {Arg(chans) : chans \in SUBSET {d0, d1}}
FilterIntervals ==
    {NoArg} \cup {Arg(ranges) : ranges \in SUBSET {<<0, 1>>, <<1, 3>>}}

\* filter returned r.
FilterReturned(self, channels, intervals, r) ==
    /\ heap' = r.heap
    /\ store' = IF r.ok THEN Append(store, r.sched) ELSE store
    /\ last' = [op |-> "filter", ok |-> r.ok, self |-> self, args |-> <<>>,
                self_before |-> View(heap, store[self]).timeslots,
                before |-> <<>>,
                result |-> IF r.ok THEN r.sched ELSE 0,
                channels |-> channels, intervals |-> intervals]
    /\ UNCHANGED schedvars

CallFilter ==
    /\ CanCall
    /\ \E i \in 1..Len(store), channels \in FilterChannels,
          intervals \in FilterIntervals :
         FilterReturned(i, channels, intervals,
                        filter(heap, store[i], channels, intervals))

\* No exception was raised.
NoError == [type |-> "", name |-> "", qubits |-> <<>>]

\* No scheduling pass has returned anything.
NoResult == [instructions |-> <<>>, timeslots |-> [c \in Channels |-> <<>>],
             duration |-> 0]

NoRun ==
    /\ circuit = <<>> /\ meas_map = <<>> /\ cmd_def = {} /\ pc = "idle"
    /\ defs = <<>> /\ k = 0 /\ avail = <<>> /\ sched = EmptySchedule
    /\ asap_start = <<>> /\ alap_start = <<>> /\ asap_sched = NoResult
    /\ raised = NoError

Init ==
    /\ heap = <<>>
    /\ store = <<>>
    /\ last = NoCall
    /\ NoRun

Next ==
    \/ CallConstruct
    \/ CallInsert
    \/ CallUnion
    \/ CallAppend
    \/ CallShift
    \/ CallFlatten
    \/ CallFilter

Spec == Init /\ [][Next]_vars

-----------------------------------------------------------------------------
(* The command catalogue and circuits of the scheduling runs *)

\* Durations of the 2-qubit test backend, as the scheduler tests expect them.
U2Duration == 28
U3Duration == 2 * U2Duration
CxDuration == 22
MeasureDuration == 10

Qubits == {0, 1}

\* The key of a command: operation name and qubit tuple.
Key(name, qubits) == <<name, qubits>>

\* (start_time, instruction) pairs of each defined command.
CommandBodies ==
    Key("u2", <<0>>) :> << <<0, Leaf("u2", U2Duration, {d0})>> >>
    @@ Key("u2", <<1>>) :> << <<0, Leaf("u2", U2Duration, {d1})>> >>
    @@ Key("u3", <<1>>) :> << <<0, Leaf("u3", U3Duration, {d1})>> >>
    @@ Key("cx", <<0, 1>>) :>
           << <<0, Leaf("cx_a", 10, {d0})>>, <<10, Leaf("cx_b", 10, {d1})>>,
              <<20, Leaf("cx_c", CxDuration - 20, {d0})>>,
              <<20, Leaf("cx_u", CxDuration - 20, {u0})>> >>
    @@ Key("measure", <<0, 1>>) :>
           << <<0, Leaf("meas", MeasureDuration, {m0, m1})>>,
              <<0, Leaf("acq", MeasureDuration, {a0, a1})>> >>
    @@ Key("measure", <<0>>) :>
           << <<0, Leaf("meas", MeasureDuration, {m0})>>,
              <<0, Leaf("acq", MeasureDuration, {a0})>> >>
    @@ Key("measure", <<1>>) :>
           << <<0, Leaf("meas", MeasureDuration, {m1})>>,
              <<0, Leaf("acq", MeasureDuration, {a1})>> >>

\* Some enumeration of a finite set.
RECURSIVE SeqOfSet(_)
SeqOfSet(S) ==
    IF S = {} THEN <<>>
    ELSE LET x == CHOOSE y \in S : TRUE IN <<x>> \o SeqOfSet(S \ {x})

\* The catalogue's Schedule objects, built one after the other in a heap.
RECURSIVE BuildCatalogue(_, _, _)
BuildCatalogue(h, keys, done) ==
    IF keys = <<>> THEN [heap |-> h, cmd_def |-> done]
    ELSE LET r == NewSchedule(h, CommandBodies[Head(keys)])
         IN BuildCatalogue(r.heap, Tail(keys), done @@ (Head(keys) :> r.sched))

Catalogue == BuildCatalogue(<<>>, SeqOfSet(DOMAIN CommandBodies), <<>>)

\* The entries a backend's catalogue may lack: none, a gate, the measurement
\* of the groups that hold qubit 1.
Undefined ==
    { {}, {Key("u3", <<1>>)},
      {Key("measure", <<0, 1>>), Key("measure", <<1>>)} }

\* The catalogues of the runs.
CmdDefs ==
    {[key \in DOMAIN Catalogue.cmd_def \ missing |-> Catalogue.cmd_def[key]] :
        missing \in Undefined}

\* meas_map in its qubit -> group form.
MeasMaps ==
    { (0 :> <<0, 1>> @@ 1 :> <<0, 1>>),
      (0 :> <<0>> @@ 1 :> <<1>>) }

Gate(name, qubits) == [kind |-> "gate", name |-> name, qubits |-> qubits]
BarrierOp(qubits) == [kind |-> "barrier", name |-> "barrier", qubits |-> qubits]
MeasureOp(q) == [kind |-> "measure", name |-> "measure", qubits |-> <<q>>]

CircuitOps ==
    { Gate("u2", <<0>>), Gate("u2", <<1>>), Gate("u3", <<1>>),
      Gate("cx", <<0, 1>>),
      BarrierOp(<<0>>), BarrierOp(<<1>>), BarrierOp(<<0, 1>>),
      MeasureOp(0), MeasureOp(1) }

\* The circuit of test_asap_pass and test_alap_pass; qc.measure(q, c) adds one
\* measure per qubit.
TestCircuit ==
    << Gate("u2", <<0>>), Gate("u2", <<1>>), BarrierOp(<<1>>),
       Gate("u2", <<1>>), BarrierOp(<<0, 1>>), Gate("cx", <<0, 1>>),
       MeasureOp(0), MeasureOp(1) >>

\* Two gates in a row on q0 before a cx that a longer gate on q1 precedes.
TwoBeforeCx ==
    << Gate("u2", <<0>>), Gate("u2", <<0>>), Gate("u3", <<1>>),
       Gate("cx", <<0, 1>>) >>

Circuits ==
    UNION {[1..n -> CircuitOps] : n \in 0..MaxCircLen}
        \cup {TestCircuit, TwoBeforeCx}

\* The circuits handed to the entry point.
EntryCircuits == UNION {[1..n -> CircuitOps] : n \in 0..MaxEntryLen}

QubitSet(op) == {op.qubits[i] : i \in 1..Len(op.qubits)}

-----------------------------------------------------------------------------
(* translate_gates_to_pulse_defs: methods/basic.py *)

\* An exception of class type; name and qubits are what its message names.
Raised(type, name, qubits) == [type |-> type, name |-> name, qubits |-> qubits]

\* The PulseError of a union whose timeslots overlap.
OverlapError == Raised("PulseError", "", <<>>)

\* As ior, but the union is thrown away and the receiver kept.
ior_discarded(self, r) ==
    [ok |-> r.ok, heap |-> r.heap, sched |-> self]

\* self |= other, other being the outcome r of the expression on the right.
ior(self, r) ==
    IF r.ok THEN union(r.heap, self, << <<0, r.sched>> >>) ELSE r

\* The loop `for qubits in measures: sched |= cmd_def.get('measure', qubits)`.
RECURSIVE measure_union(_, _, _, _)
RECURSIVE measure_next(_, _, _)
measure_union(h, cd, s, measures) ==
    IF measures = <<>>
    THEN [ok |-> TRUE, heap |-> h, sched |-> s, error |-> NoError]
    ELSE IF Key("measure", Head(measures)) \notin DOMAIN cd
    THEN [ok |-> FALSE, heap |-> h, sched |-> s,
          error |-> Raised("PulseError", "measure", Head(measures))]
    ELSE measure_next(cd, measures,
             union(h, s, << <<0, cd[Key("measure", Head(measures))]>> >>))

measure_next(cd, measures, u) ==
    IF u.ok THEN measure_union(u.heap, cd, u.sched, Tail(measures))
    ELSE [ok |-> FALSE, heap |-> u.heap, sched |-> u.sched,
          error |-> OverlapError]

\* As measure_def, but the step only holds the qubits that were requested.
measure_def_requested(r, mm, measured_qubits, reqs) ==
    [ok |-> r.ok, heap |-> r.heap, error |-> r.error,
     def |-> [kind |-> "sched", schedule |-> r.sched,
              qubits |-> measured_qubits,
              measure |-> TRUE, pos |-> reqs]]

\* CircuitPulseDef(schedule=sched, qubits=all_qubits) of the union r.
measure_def(r, mm, measured_qubits, reqs) ==
    [ok |-> r.ok, heap |-> r.heap, error |-> r.error,
     def |-> [kind |-> "sched", schedule |-> r.sched,
              qubits |-> UNION {{mm[q][i] : i \in 1..Len(mm[q])} :
                                   q \in measured_qubits},
              measure |-> TRUE, pos |-> reqs]]

\* get_measure_schedule(): [ok, heap, def]; reqs are the circuit positions of
\* the queued measure requests.
get_measure_schedule(h, cd, mm, measured_qubits, reqs) ==
    IF ~(measured_qubits \subseteq DOMAIN mm)
    THEN [ok |-> FALSE, heap |-> h,
          error |-> Raised("KeyError", "meas_map", <<>>),
          def |-> [kind |-> "sched", schedule |-> EmptySchedule,
                   qubits |-> measured_qubits, measure |-> TRUE,
                   pos |-> reqs]]
    ELSE
    measure_def(measure_union(h, cd, EmptySchedule,
                              SeqOfSet({mm[q] : q \in measured_qubits})),
                mm, measured_qubits, reqs)

\* The loop over circuit.data and the final flush.
\* [ok, error, heap, defs]
RECURSIVE translate_loop(_, _, _, _, _, _, _, _)
RECURSIVE translate_flushed(_, _, _, _, _, _)
RECURSIVE translate_inst(_, _, _, _, _, _, _, _)
translate_loop(h, circ, cd, mm, i, circ_pulse_defs, measured_qubits, reqs) ==
    IF i > Len(circ) THEN
        IF measured_qubits # {}
        THEN translate_flushed(circ, cd, mm, i, circ_pulse_defs,
                 get_measure_schedule(h, cd, mm, measured_qubits, reqs))
        ELSE [ok |-> TRUE, error |-> NoError, heap |-> h, defs |-> circ_pulse_defs]
    ELSE IF QubitSet(circ[i]) \cap measured_qubits # {}
    THEN translate_flushed(circ, cd, mm, i, circ_pulse_defs,
             get_measure_schedule(h, cd, mm, measured_qubits, reqs))
    ELSE translate_inst(h, circ, cd, mm, i, circ_pulse_defs, measured_qubits,
                        reqs)

\* As translate_flushed, but the measurement step is not appended.
translate_flushed_lost(circ, cd, mm, i, circ_pulse_defs, g) ==
    IF ~g.ok
    THEN [ok |-> FALSE, error |-> g.error, heap |-> g.heap,
          defs |-> circ_pulse_defs]
    ELSE IF i > Len(circ)
    THEN [ok |-> TRUE, error |-> NoError, heap |-> g.heap, defs |-> circ_pulse_defs]
    ELSE translate_inst(g.heap, circ, cd, mm, i, circ_pulse_defs, {}, {})

\* circ_pulse_defs.append(get_measure_schedule()), g being what it returned.
translate_flushed(circ, cd, mm, i, circ_pulse_defs, g) ==
    IF ~g.ok
    THEN [ok |-> FALSE, error |-> g.error, heap |-> g.heap,
          defs |-> circ_pulse_defs]
    ELSE IF i > Len(circ)
    THEN [ok |-> TRUE, error |-> NoError, heap |-> g.heap,
          defs |-> Append(circ_pulse_defs, g.def)]
    ELSE translate_inst(g.heap, circ, cd, mm, i,
                        Append(circ_pulse_defs, g.def), {}, {})

\* The branches on the kind of circ[i].
translate_inst(h, circ, cd, mm, i, circ_pulse_defs, measured_qubits, reqs) ==
    IF circ[i].kind = "barrier"
    THEN translate_loop(h, circ, cd, mm, i + 1,
             Append(circ_pulse_defs,
                    [kind |-> "barrier", schedule |-> EmptySchedule,
                     qubits |-> QubitSet(circ[i]), measure |-> FALSE,
                     pos |-> {i}]),
             measured_qubits, reqs)
    ELSE IF circ[i].kind = "measure"
    THEN translate_loop(h, circ, cd, mm, i + 1, circ_pulse_defs,
                        measured_qubits \cup QubitSet(circ[i]), reqs \cup {i})
    ELSE IF Key(circ[i].name, circ[i].qubits) \notin DOMAIN cd
    THEN [ok |-> FALSE,
          error |-> Raised("QiskitError", circ[i].name, circ[i].qubits),
          heap |-> h,
          defs |-> circ_pulse_defs]
    ELSE translate_loop(h, circ, cd, mm, i + 1,
             Append(circ_pulse_defs,
                    [kind |-> "sched",
                     schedule |-> cd[Key(circ[i].name, circ[i].qubits)],
                     qubits |-> QubitSet(circ[i]), measure |-> FALSE,
                     pos |-> {i}]),
             measured_qubits, reqs)

translate_gates_to_pulse_defs(h, circ, cd, mm) ==
    translate_loop(h, circ, cd, mm, 1, <<>>, {}, {})

-----------------------------------------------------------------------------
(* as_soon_as_possible and as_late_as_possible: methods/basic.py *)

\* As asap_time, but the availability of the qubits is ignored.
asap_time_zero(qubit_time_available, qubits) == 0

\* As asap_time, but the earliest of the qubits' times.
asap_time_min(qubit_time_available, qubits) ==
    SetMin({qubit_time_available[q] : q \in qubits})

\* max(qubit_time_available[q] for q in circ_pulse_def.qubits)
asap_time(qubit_time_available, qubits) ==
    SetMax({qubit_time_available[q] : q \in qubits})

\* As asap_update_times, but every qubit is moved to `time`.
asap_update_times_all(qubit_time_available, inst_qubits, time) ==
    [q \in DOMAIN qubit_time_available |-> time]

\* as_soon_as_possible.update_times(inst_qubits, time)
asap_update_times(qubit_time_available, inst_qubits, time) ==
    [q \in DOMAIN qubit_time_available |->
        IF q \in inst_qubits THEN time ELSE qubit_time_available[q]]

\* qubit_available_until is a defaultdict of float("inf"): a qubit that is
\* not a key stands at infinity.  Reading it for `qubits` adds them as keys.
alap_keys(qubit_available_until, qubits) ==
    DOMAIN qubit_available_until \cup qubits

\* min(qubit_available_until[q] ...) - duration, and 0 when that is infinite
alap_cmd_start_time(qubit_available_until, qubits, duration) ==
    LET finite == {qubit_available_until[q] :
                      q \in qubits \cap DOMAIN qubit_available_until}
    IN IF finite = {} THEN 0 ELSE SetMin(finite) - duration

\* As alap_shift_amount, but what was scheduled is never moved.
alap_shift_amount_none(cmd_start_time) == 0

\* shift_amount = max(0, -cmd_start_time)
alap_shift_amount(cmd_start_time) == Max(0, 0 - cmd_start_time)

\* As alap_clamp, but a negative start time is kept.
alap_clamp_none(cmd_start_time) == cmd_start_time

\* cmd_start_time = max(cmd_start_time, 0)
alap_clamp(cmd_start_time) == Max(cmd_start_time, 0)

\* As alap_update_times, but the other qubits keep their times when the
\* schedule is shifted.
alap_update_times_noshift(qubit_available_until, keys, inst_qubits, shift_amount) ==
    [q \in keys |->
        IF q \in inst_qubits THEN 0 ELSE qubit_available_until[q]]

\* as_late_as_possible.update_times(inst_qubits, shift): only the keys that
\* exist are visited.
alap_update_times(qubit_available_until, keys, inst_qubits, shift_amount) ==
    [q \in keys |->
        IF q \in inst_qubits THEN 0
        ELSE qubit_available_until[q] + shift_amount]

\* What is kept of a returned schedule once its pass is over.
Result(h, s) ==
    [instructions |-> instructions(s),
     timeslots |-> [c \in Channels |-> TsOf(h, s, c)],
     duration |-> s.duration]

Failed(error) ==
    /\ pc' = error.type
    /\ raised' = error
    /\ UNCHANGED <<heap, defs, k, avail, sched, asap_start, alap_start,
                   asap_sched>>

\* as_soon_as_possible, up to its loop; t is what the translation returned.
AsapBegun(t) ==
    IF t.ok
    THEN /\ heap' = t.heap
         /\ defs' = t.defs
         /\ k' = 0
         /\ avail' = [q \in Qubits |-> 0]
         /\ sched' = EmptySchedule
         /\ asap_start' = <<>>
         /\ pc' = "asap_loop"
         /\ UNCHANGED <<alap_start, asap_sched, raised>>
    ELSE Failed(t.error)

AsapBegin ==
    /\ pc = "asap_begin"
    /\ AsapBegun(translate_gates_to_pulse_defs(heap, circuit, cmd_def,
                                               meas_map))
    /\ UNCHANGED <<store, last, circuit, meas_map, cmd_def>>

\* The else branch: sched |= circ_pulse_def.schedule << time returned u.
AsapPlaced(circ_pulse_def, time, u) ==
    IF u.ok
    THEN /\ heap' = u.heap
         /\ sched' = u.sched
         /\ avail' = asap_update_times(avail, circ_pulse_def.qubits,
                         time + circ_pulse_def.schedule.duration)
         /\ asap_start' = Append(asap_start, time)
         /\ k' = k + 1
         /\ UNCHANGED <<pc, defs, alap_start, asap_sched, raised>>
    ELSE Failed(OverlapError)

\* The body of the loop for circ_pulse_def at the time the code computes.
AsapBody(circ_pulse_def, time) ==
    IF circ_pulse_def.kind = "barrier"
    THEN /\ avail' = asap_update_times(avail, circ_pulse_def.qubits, time)
         /\ asap_start' = Append(asap_start, time)
         /\ k' = k + 1
         /\ UNCHANGED <<heap, sched, pc, defs, alap_start, asap_sched,
                        raised>>
    ELSE AsapPlaced(circ_pulse_def, time,
             ior(sched, shift(heap, circ_pulse_def.schedule, time)))

\* one iteration of `for circ_pulse_def in circ_pulse_defs`
AsapStep ==
    /\ pc = "asap_loop"
    /\ k < Len(defs)
    /\ AsapBody(defs[k + 1], asap_time(avail, defs[k + 1].qubits))
    /\ UNCHANGED <<store, last, circuit, meas_map, cmd_def>>

\* return sched
AsapReturn ==
    /\ pc = "asap_loop"
    /\ k = Len(defs)
    /\ asap_sched' = Result(heap, sched)
    /\ pc' = "alap_begin"
    /\ UNCHANGED <<heap, defs, k, avail, sched, asap_start, alap_start>>
    /\ UNCHANGED <<store, last, circuit, meas_map, cmd_def, raised>>

\* as_late_as_possible, up to its loop; t is what the translation returned.
AlapBegun(t) ==
    IF t.ok
    THEN /\ heap' = t.heap
         /\ defs' = t.defs
         /\ k' = 0
         /\ avail' = <<>>
         /\ sched' = EmptySchedule
         /\ alap_start' = [i \in 1..Len(t.defs) |-> 0]
         /\ pc' = "alap_loop"
         /\ UNCHANGED <<asap_start, asap_sched, raised>>
    ELSE Failed(t.error)

\* What the first pass allocated is unreachable by now.
AlapBegin ==
    /\ pc = "alap_begin"
    /\ AlapBegun(translate_gates_to_pulse_defs(Catalogue.heap, circuit,
                                               cmd_def, meas_map))
    /\ UNCHANGED <<store, last, circuit, meas_map, cmd_def>>

\* As or_shifted, but b is placed one time step after t2.
or_shifted_late(s1, b, t2) ==
    IF s1.ok THEN ior(s1.sched, shift(s1.heap, b, t2 + 1)) ELSE s1

\* a.shift(t1) | b.shift(t2), s1 being what a.shift(t1) returned.
or_shifted(s1, b, t2) ==
    IF s1.ok THEN ior(s1.sched, shift(s1.heap, b, t2)) ELSE s1

\* The else branch: the union of the two shifted schedules returned u.
AlapPlaced(n, circ_pulse_def, cmd_start_time, shift_amount, u) ==
    IF u.ok
    THEN /\ heap' = u.heap
         /\ sched' = u.sched
         /\ avail' = alap_update_times(avail,
                         alap_keys(avail, circ_pulse_def.qubits),
                         circ_pulse_def.qubits, shift_amount)
         /\ alap_start' = [i \in 1..Len(defs) |->
                             IF i = n THEN cmd_start_time
                             ELSE IF i > n THEN alap_start[i] + shift_amount
                             ELSE alap_start[i]]
         /\ k' = k + 1
         /\ UNCHANGED <<pc, defs, asap_start, asap_sched, raised>>
    ELSE Failed(OverlapError)

\* The body of the loop for defs[n]; start0 is cmd_start_time before the
\* shift is taken out of it.
AlapBody(n, circ_pulse_def, start0) ==
    IF circ_pulse_def.kind = "barrier"
    THEN /\ avail' = alap_update_times(avail, DOMAIN avail,
                                       circ_pulse_def.qubits, 0)
         /\ alap_start' = [alap_start EXCEPT ![n] = 0]
         /\ k' = k + 1
         /\ UNCHANGED <<heap, sched, pc, defs, asap_start, asap_sched,
                        raised>>
    ELSE AlapPlaced(n, circ_pulse_def, alap_clamp(start0),
             alap_shift_amount(start0),
             or_shifted(shift(heap, sched, alap_shift_amount(start0)),
                        circ_pulse_def.schedule, alap_clamp(start0)))

\* one iteration of `for circ_pulse_def in reversed(circ_pulse_defs)`
AlapStep ==
    /\ pc = "alap_loop"
    /\ k < Len(defs)
    /\ AlapBody(Len(defs) - k, defs[Len(defs) - k],
                alap_cmd_start_time(avail, defs[Len(defs) - k].qubits,
                                    defs[Len(defs) - k].schedule.duration))
    /\ UNCHANGED <<store, last, circuit, meas_map, cmd_def>>

\* return sched
AlapReturn ==
    /\ pc = "alap_loop"
    /\ k = Len(defs)
    /\ pc' = "done"
    /\ UNCHANGED <<heap, defs, k, avail, sched, asap_start, alap_start,
                   asap_sched>>
    /\ UNCHANGED <<store, last, circuit, meas_map, cmd_def, raised>>

SchedInit ==
    /\ heap = Catalogue.heap
    /\ store = <<>>
    /\ last = NoCall
    /\ circuit \in Circuits
    /\ meas_map \in MeasMaps
    /\ cmd_def \in CmdDefs
    /\ pc = "asap_begin"
    /\ defs = <<>>
    /\ k = 0
    /\ avail = <<>>
    /\ sched = EmptySchedule
    /\ asap_start = <<>>
    /\ alap_start = <<>>
    /\ asap_sched = NoResult
    /\ raised = NoError

SchedNext ==
    \/ AsapBegin
    \/ AsapStep
    \/ AsapReturn
    \/ AlapBegin
    \/ AlapStep
    \/ AlapReturn

SchedSpec == SchedInit /\ [][SchedNext]_vars

-----------------------------------------------------------------------------
(* The entry point: scheduler/schedule.py, schedule_circuit.py *)

\* sublist.sort()
RECURSIVE sorted_list(_)
sorted_list(sublist) ==
    IF sublist = <<>> THEN <<>>
    ELSE LET low == SetMin({sublist[i] : i \in 1..Len(sublist)})
             at == CHOOSE i \in 1..Len(sublist) : sublist[i] = low
         IN <<low>> \o sorted_list([i \in 1..(Len(sublist) - 1) |->
                                       IF i < at THEN sublist[i]
                                       ELSE sublist[i + 1]])

\* The loop of format_meas_map over the sublists from index i on, each
\* sorted in place and filed under its qubits.
RECURSIVE format_loop(_, _, _)
format_loop(groups, i, qubit_mapping) ==
    IF i > Len(groups)
    THEN [mapping |-> qubit_mapping, groups |-> groups]
    ELSE format_loop(
             [groups EXCEPT ![i] = sorted_list(@)], i + 1,
             [q \in DOMAIN qubit_mapping
                    \cup {groups[i][n] : n \in 1..Len(groups[i])} |->
                 IF q \in {groups[i][n] : n \in 1..Len(groups[i])}
                 THEN sorted_list(groups[i]) ELSE qubit_mapping[q]])

\* format_meas_map(meas_map): the mapping it returns and the list of lists
\* `groups` it was given, as the call leaves it.
format_meas_map(groups) == format_loop(groups, 1, <<>>)

\* A list argument that is None, or a list.
NoValue == [given |-> FALSE, value |-> <<>>]
Value(value) == [given |-> TRUE, value |-> value]

\* backend.defaults() as a CmdDef, backend.configuration().meas_map
BackendCmdDef == Catalogue.cmd_def
BackendMeasMap == << <<0, 1>> >>

\* The cmd_def arguments: None, or a catalogue that lacks the keys `missing`.
CmdDefArgs == {NoArg} \cup {Arg(missing) : missing \in Undefined}
CmdDefOf(missing) ==
    [key \in DOMAIN Catalogue.cmd_def \ missing |-> Catalogue.cmd_def[key]]

\* The meas_map arguments: None, one group, a group per qubit, a group
\* written in another order, a map without qubit 1.
MeasMapArgs ==
    {NoValue} \cup {Value(groups) :
        groups \in { << <<0, 1>> >>, << <<0>>, <<1>> >>, << <<1, 0>> >>,
                     << <<0>> >> }}

\* The method arguments; "None" stands for None.
MethodArgs == {"None", "greedy", "minimize_earliness", "as_late_as_possible"}

\* schedule_circuit: the `methods` dict, a key to the pass it names.
methods == [method \in {"greedy", "minimize_earliness"} |->
               IF method = "greedy" THEN "asap_begin" ELSE "alap_begin"]

\* schedule(), lines 52 to 64: the catalogue and the measurement map of the
\* ScheduleConfig, or the exception raised on the way.
schedule_config(backend, cmd_def_arg, meas_map_arg) ==
    IF ~backend
    THEN [ok |-> FALSE, error |-> Raised("AttributeError", "defaults", <<>>),
          cmd_def |-> <<>>, meas_map |-> <<>>]
    ELSE IF ~cmd_def_arg.given /\ ~backend
    THEN [ok |-> FALSE, error |-> Raised("QiskitError", "CmdDef", <<>>),
          cmd_def |-> <<>>, meas_map |-> <<>>]
    ELSE IF ~meas_map_arg.given /\ ~backend
    THEN [ok |-> FALSE, error |-> Raised("QiskitError", "meas_map", <<>>),
          cmd_def |-> <<>>, meas_map |-> <<>>]
    ELSE [ok |-> TRUE, error |-> NoError,
          cmd_def |-> IF cmd_def_arg.given THEN CmdDefOf(cmd_def_arg.value)
                      ELSE BackendCmdDef,
          meas_map |-> IF meas_map_arg.given THEN meas_map_arg.value
                       ELSE BackendMeasMap]

\* What the caller has of its call of schedule: the arguments, and the list
\* of lists it passed as meas_map as the call left it.
EntryCall(op, backend, cmd_def_arg, meas_map_arg, method, after) ==
    [op |-> op, backend |-> backend, cmd_def |-> cmd_def_arg,
     meas_map |-> meas_map_arg, method |-> method, meas_map_after |-> after]

NoEntryCall == EntryCall("none", FALSE, NoArg, NoValue, "None", <<>>)

\* schedule_circuit(circuit, schedule_config, method) up to the call of the
\* pass; c is the ScheduleConfig in the making.
ScheduleCircuit(circ, c, method) ==
    IF ~c.ok THEN Failed(c.error) /\ UNCHANGED <<circuit, cmd_def, meas_map>>
    ELSE /\ circuit' = circ
         /\ cmd_def' = c.cmd_def
         /\ meas_map' = format_meas_map(c.meas_map).mapping
         /\ IF (IF method = "None" THEN "minimize_earliness" ELSE method)
                   \in DOMAIN methods
            THEN /\ pc' = methods[IF method = "None" THEN "minimize_earliness"
                                  ELSE method]
                 /\ UNCHANGED <<heap, defs, k, avail, sched, asap_start,
                                alap_start, asap_sched, raised>>
            ELSE Failed(Raised("QiskitError", "unrecognized", <<>>))

\* schedule(circuit, backend, cmd_def, meas_map, method)
CallSchedule ==
    /\ pc = "entry"
    /\ \E circ \in EntryCircuits, backend \in BOOLEAN,
          cmd_def_arg \in CmdDefArgs, meas_map_arg \in MeasMapArgs,
          method \in MethodArgs :
         /\ ScheduleCircuit(circ,
                schedule_config(backend, cmd_def_arg, meas_map_arg), method)
         /\ last' = EntryCall("schedule", backend, cmd_def_arg, meas_map_arg,
                        method,
                        IF backend
                        THEN format_meas_map(meas_map_arg.value).groups
                        ELSE meas_map_arg.value)
    /\ UNCHANGED store

\* as_soon_as_possible returns to schedule_circuit, and that to the caller.
EntryAsapReturn ==
    /\ pc = "asap_loop"
    /\ k = Len(defs)
    /\ pc' = "done"
    /\ UNCHANGED <<heap, defs, k, avail, sched, asap_start, alap_start,
                   asap_sched>>
    /\ UNCHANGED <<store, last, circuit, meas_map, cmd_def, raised>>

\* schedule_circuit: `except KeyError: raise QiskitError(... isn't
\* recognized)` around the call of the pass.
ExceptKeyError ==
    /\ pc = "KeyError"
    /\ Failed(Raised("QiskitError", "unrecognized", <<>>))
    /\ UNCHANGED <<store, last, circuit, meas_map, cmd_def>>

EntryInit ==
    /\ heap = Catalogue.heap
    /\ store = <<>>
    /\ last = NoEntryCall
    /\ circuit = <<>> /\ meas_map = <<>> /\ cmd_def = <<>>
    /\ pc = "entry"
    /\ defs = <<>> /\ k = 0 /\ avail = <<>> /\ sched = EmptySchedule
    /\ asap_start = <<>> /\ alap_start = <<>> /\ asap_sched = NoResult
    /\ raised = NoError

EntryNext ==
    \/ CallSchedule
    \/ AsapBegin
    \/ AsapStep
    \/ EntryAsapReturn
    \/ AlapBegin
    \/ AlapStep
    \/ AlapReturn
    \/ ExceptKeyError

EntrySpec == EntryInit /\ [][EntryNext]_vars

-----------------------------------------------------------------------------
(* ParameterizedSchedule: pulse/schedule.py; PulseDefaults:
   providers/models/pulsedefaults.py. In DefaultsSpec cmd_def is the
   _ops_def of the PulseDefaults object and store holds its other fields. *)

\* The parameter names, in sorted order.
ParameterOrder == <<"P1", "P2">>

\* tuple(sorted(set(parameters)))
sorted_parameters(parameters) ==
    SelectSeq(ParameterOrder, LAMBDA p : p \in parameters)

Range(seq) == {seq[n] : n \in 1..Len(seq)}

\* A Schedule of the catalogue: its name and its instructions, (pulse,
\* samples) pairs and ("fc", values) pairs.
PulseSchedule(name, insts) ==
    [kind |-> "Schedule", name |-> name, schedules |-> insts,
     parameterized |-> <<>>, parameters |-> <<>>]

\* The partition of ParameterizedSchedule.__init__: the instructions of the
\* arguments that are Schedules, in order.
RECURSIVE full_schedules(_)
full_schedules(schedules) ==
    IF schedules = <<>> THEN <<>>
    ELSE (IF Head(schedules).kind = "Schedule" THEN Head(schedules).schedules
          ELSE <<>>) \o full_schedules(Tail(schedules))

\* The arguments that are ParameterizedSchedules, each kept as the tuple of
\* the parameters its command expression takes.
RECURSIVE parameterized(_)
parameterized(schedules) ==
    IF schedules = <<>> THEN <<>>
    ELSE (IF Head(schedules).kind = "ParameterizedSchedule"
          THEN <<Head(schedules).parameters>> ELSE <<>>)
         \o parameterized(Tail(schedules))

\* ParameterizedSchedule(*schedules, name=name)
ParameterizedSchedule(schedules, name) ==
    [kind |-> "ParameterizedSchedule", name |-> name,
     schedules |-> full_schedules(schedules),
     parameterized |-> parameterized(schedules),
     parameters |->
         sorted_parameters(UNION {Range(parameterized(schedules)[n]) :
             n \in 1..Len(parameterized(schedules))})]

\* A value that is neither a Schedule nor a ParameterizedSchedule.
NotASchedule ==
    [kind |-> "str", name |-> "not a schedule", schedules |-> <<>>,
     parameterized |-> <<>>, parameters |-> <<>>]

\* No schedule: what a call that raised, or returns None, leaves behind.
NoSchedule ==
    [kind |-> "None", name |-> "", schedules |-> <<>>,
     parameterized |-> <<>>, parameters |-> <<>>]

\* named_parameters after `for key, val in zip(self.parameters, args)`:
\* zip stops at the shorter of the two.
zip_parameters(parameters, args) ==
    [p \in {parameters[n] : n \in 1..Min(Len(parameters), Len(args))} |->
        args[CHOOSE n \in 1..Len(parameters) : parameters[n] = p]]

\* The loop over kwargs raises for a key that is no parameter, or that
\* zip gave a value already.
kwargs_rejected(parameters, named_parameters, kwargs) ==
    \E key \in DOMAIN kwargs :
        \/ key \notin Range(parameters)
        \/ key \in DOMAIN named_parameters

\* param_sched(**sub_params) of a command expression with the parameters
\* predefined raises PulseError unless each of them has a value.
unbound(predefined, named_parameters) ==
    ~(Range(predefined) \subseteq DOMAIN named_parameters)

\* ParameterizedSchedule.bind_parameters(*args, **kwargs): [ok, schedule],
\* not ok standing for the PulseError.
bind_parameters(self, args, kwargs) ==
    LET named_parameters ==
            [p \in DOMAIN zip_parameters(self.parameters, args)
                      \cup (DOMAIN kwargs \cap Range(self.parameters)) |->
                IF p \in DOMAIN zip_parameters(self.parameters, args)
                THEN zip_parameters(self.parameters, args)[p]
                ELSE kwargs[p]]
    IN IF kwargs_rejected(self.parameters,
                          zip_parameters(self.parameters, args), kwargs)
       THEN [ok |-> FALSE, schedule |-> NoSchedule]
       ELSE IF \E n \in 1..Len(self.parameterized) :
                   unbound(self.parameterized[n], named_parameters)
       THEN [ok |-> FALSE, schedule |-> NoSchedule]
       ELSE [ok |-> TRUE,
             schedule |->
                 PulseSchedule(self.name,
                     self.schedules \o
                     [n \in 1..Len(self.parameterized) |->
                         <<"fc", [m \in 1..Len(self.parameterized[n]) |->
                                    named_parameters[self.parameterized[n][m]]]>>])]

\* The samples a pulse has in the backend's library, and those a caller
\* replaces them by.
DefaultSamples == <<0>>
NewSamples == <<1>>

\* An instruction of a Command's sequence: a pulse of the library, or a
\* frame change whose phase is a parameter.
Play(name) == [name |-> name, phase |-> ""]
Fc(phase) == [name |-> "fc", phase |-> phase]
Command(name, qubits, sequence) ==
    [name |-> name, qubits |-> qubits, sequence |-> sequence]

\* The pulse_library and the cmd_def of the backend of the tests.
BackendPulseLibrary ==
    [name \in {"test_pulse_1", "test_pulse_3"} |-> DefaultSamples]
BackendCommands ==
    << Command("u1", <<0>>, <<Fc("P1")>>),
       Command("u3", <<0>>, <<Play("test_pulse_1")>>),
       Command("u3", <<1>>, <<Play("test_pulse_3")>>) >>

\* self.converter(inst) with the pulses bound as in pulse_library.
converter(pulse_library, inst) ==
    IF inst.name = "fc"
    THEN [kind |-> "ParameterizedSchedule", name |-> "fc",
          schedules |-> <<>>, parameterized |-> << <<inst.phase>> >>,
          parameters |-> <<inst.phase>>]
    ELSE PulseSchedule(inst.name,
                       << <<inst.name, pulse_library[inst.name]>> >>)

\* ParameterizedSchedule(*[self.converter(inst) for inst in op.sequence],
\*                       name=op.name)
converted(pulse_library, op) ==
    ParameterizedSchedule(
        [n \in 1..Len(op.sequence) |-> converter(pulse_library, op.sequence[n])],
        op.name)

\* self._ops_def[operation][qubits] = schedule on a defaultdict(dict)
put(ops_def, operation, qubits, schedule) ==
    [name \in DOMAIN ops_def \cup {operation} |->
        IF name # operation THEN ops_def[name]
        ELSE [qs \in (IF operation \in DOMAIN ops_def
                      THEN DOMAIN ops_def[operation] ELSE {}) \cup {qubits} |->
                 IF qs = qubits THEN schedule ELSE ops_def[operation][qs]]]

\* As popped, but the entry stays in the dict.
popped_kept(ops_def, operation, qubits) == ops_def

\* self._ops_def[operation].pop(qubits)
popped(ops_def, operation, qubits) ==
    [ops_def EXCEPT ![operation] =
        [qs \in DOMAIN ops_def[operation] \ {qubits} |->
            ops_def[operation][qs]]]

\* self._ops_def[operation] read on a defaultdict(dict): a name that is no
\* key becomes the key of an empty dict.
touched(ops_def, operation) ==
    IF operation \in DOMAIN ops_def THEN ops_def
    ELSE [name \in DOMAIN ops_def \cup {operation} |->
             IF name = operation THEN <<>> ELSE ops_def[name]]

\* The loop of __init__ over cmd_def from the n-th command on: _ops_def.
RECURSIVE init_ops_def(_, _, _, _)
init_ops_def(pulse_library, commands, n, ops_def) ==
    IF n > Len(commands) THEN ops_def
    ELSE init_ops_def(pulse_library, commands, n + 1,
             put(ops_def, commands[n].name, commands[n].qubits,
                 converted(pulse_library, commands[n])))

\* __init__: _qubit_ops, the names of the commands on each qubit tuple.
init_qubit_ops(commands) ==
    [qubits \in {commands[n].qubits : n \in 1..Len(commands)} |->
        [m \in 1..Len(SelectSeq(commands, LAMBDA op : op.qubits = qubits)) |->
            SelectSeq(commands, LAMBDA op : op.qubits = qubits)[m].name]]

\* The pulses of the library a command plays.
PulsesOf(op) ==
    {op.sequence[m].name : m \in 1..Len(op.sequence)}
        \ {"pv", "fc", "acquire", "snapshot"}

\* __init__: __pulse_library_usage, the commands that use each pulse.
init_usage(commands) ==
    [name \in UNION {PulsesOf(commands[n]) : n \in 1..Len(commands)} |->
        SelectSeq(commands, LAMBDA op : name \in PulsesOf(op))]

\* PulseDefaults(pulse_library, cmd_def): the fields beside _ops_def.
PulseDefaults(pulse_library, commands) ==
    [pulse_library |-> pulse_library,
     usage |-> init_usage(commands),
     qubit_ops |-> init_qubit_ops(commands)]

\* What a call of a PulseDefaults method leaves: the exception it raised
\* if not ok, the object's fields, and what it returned.
Outcome(ok, error, ops_def, fields, schedule, answer, names, tuples) ==
    [ok |-> ok, error |-> error, ops_def |-> ops_def, fields |-> fields,
     schedule |-> schedule, answer |-> answer, names |-> names,
     tuples |-> tuples]

\* raise PulseError(...), the object left as it is
raise_error(type, ops_def, fields) ==
    Outcome(FALSE, Raised(type, "", <<>>), ops_def, fields, NoSchedule,
            FALSE, {}, {})

\* PulseDefaults.has(operation, qubits)
has(ops_def, operation, qubits) ==
    operation \in DOMAIN ops_def /\ qubits \in DOMAIN ops_def[operation]

\* PulseDefaults.assert_has(operation, qubits)
assert_has(ops_def, fields, operation, qubits) ==
    IF ~has(ops_def, operation, qubits)
    THEN raise_error("PulseError", ops_def, fields)
    ELSE Outcome(TRUE, NoError, ops_def, fields, NoSchedule, FALSE, {}, {})

\* `if isinstance(schedule, ParameterizedSchedule): schedule =
\* schedule.bind_parameters(*params, **kwparams)`, then return it.
bound(ops_def, fields, schedule, params, kwparams) ==
    IF schedule.kind # "ParameterizedSchedule"
    THEN Outcome(TRUE, NoError, ops_def, fields, schedule, FALSE, {}, {})
    ELSE IF ~bind_parameters(schedule, params, kwparams).ok
    THEN raise_error("PulseError", ops_def, fields)
    ELSE Outcome(TRUE, NoError, ops_def, fields,
                 bind_parameters(schedule, params, kwparams).schedule,
                 FALSE, {}, {})

\* PulseDefaults.get(operation, qubits, *params, **kwparams)
get(ops_def, fields, operation, qubits, params, kwparams) ==
    IF ~has(ops_def, operation, qubits)
    THEN raise_error("PulseError", ops_def, fields)
    ELSE bound(ops_def, fields, ops_def[operation][qubits], params, kwparams)

\* PulseDefaults.get_parameters(operation, qubits); a Schedule has no
\* attribute `parameters`.
get_parameters(ops_def, fields, operation, qubits) ==
    IF ~has(ops_def, operation, qubits)
    THEN raise_error("PulseError", ops_def, fields)
    ELSE IF ops_def[operation][qubits].kind # "ParameterizedSchedule"
    THEN raise_error("AttributeError", ops_def, fields)
    ELSE Outcome(TRUE, NoError, ops_def, fields, NoSchedule, FALSE,
                 Range(ops_def[operation][qubits].parameters), {})

\* PulseDefaults.add(operation, qubits, schedule)
add(ops_def, fields, operation, qubits, schedule) ==
    IF qubits = <<>>
    THEN raise_error("PulseError", ops_def, fields)
    ELSE IF schedule.kind \notin {"Schedule", "ParameterizedSchedule"}
    THEN raise_error("PulseError", ops_def, fields)
    ELSE Outcome(TRUE, NoError, put(ops_def, operation, qubits, schedule),
                 fields, NoSchedule, FALSE, {}, {})

\* PulseDefaults.remove(operation, qubits)
remove(ops_def, fields, operation, qubits) ==
    IF ~has(ops_def, operation, qubits)
    THEN raise_error("PulseError", ops_def, fields)
    ELSE Outcome(TRUE, NoError, popped(ops_def, operation, qubits), fields,
                 NoSchedule, FALSE, {}, {})

\* PulseDefaults.pop(operation, qubits, *params, **kwparams): the entry is
\* taken out before its parameters are bound.
pop(ops_def, fields, operation, qubits, params, kwparams) ==
    IF ~has(ops_def, operation, qubits)
    THEN raise_error("PulseError", ops_def, fields)
    ELSE bound(popped(ops_def, operation, qubits), fields,
               ops_def[operation][qubits], params, kwparams)

\* PulseDefaults.ops(): the keys of _ops_def.
ops(ops_def, fields) ==
    Outcome(TRUE, NoError, ops_def, fields, NoSchedule, FALSE,
            DOMAIN ops_def, {})

\* PulseDefaults.op_qubits(operation): the keys of self._ops_def[operation].
op_qubits(ops_def, fields, operation) ==
    Outcome(TRUE, NoError, touched(ops_def, operation), fields, NoSchedule,
            FALSE, {}, DOMAIN touched(ops_def, operation)[operation])

\* PulseDefaults.qubit_ops(qubits): self._qubit_ops[qubits] on a
\* defaultdict(list).
qubit_ops(ops_def, fields, qubits) ==
    IF qubits \in DOMAIN fields.qubit_ops
    THEN Outcome(TRUE, NoError, ops_def, fields, NoSchedule, FALSE,
                 Range(fields.qubit_ops[qubits]), {})
    ELSE Outcome(TRUE, NoError, ops_def,
                 [fields EXCEPT !.qubit_ops =
                     [qs \in DOMAIN fields.qubit_ops \cup {qubits} |->
                         IF qs = qubits THEN <<>> ELSE fields.qubit_ops[qs]]],
                 NoSchedule, FALSE, {}, {})

\* The loop `for op in self.__pulse_library_usage[name]` from the n-th
\* command on: each is converted anew and stored under its name and qubits.
RECURSIVE replace_loop(_, _, _, _)
replace_loop(pulse_library, commands, n, ops_def) ==
    IF n > Len(commands) THEN ops_def
    ELSE replace_loop(pulse_library, commands, n + 1,
             put(ops_def, commands[n].name, commands[n].qubits,
                 converted(pulse_library, commands[n])))

\* PulseDefaults.replace_pulse(name, samples)
replace_pulse(ops_def, fields, name, samples) ==
    IF name \notin DOMAIN fields.pulse_library
    THEN raise_error("PulseError", ops_def, fields)
    ELSE Outcome(TRUE, NoError,
             replace_loop([fields.pulse_library EXCEPT ![name] = samples],
                 IF name \in DOMAIN fields.usage THEN fields.usage[name]
                 ELSE <<>>, 1, ops_def),
             [fields EXCEPT
                 !.pulse_library = [@ EXCEPT ![name] = samples],
                 !.usage = [pulse \in DOMAIN @ \cup {name} |->
                               IF pulse \in DOMAIN @ THEN @[pulse] ELSE <<>>]],
             NoSchedule, FALSE, {}, {})

-----------------------------------------------------------------------------
(* Calls of a PulseDefaults object made by a caller: DefaultsSpec *)

\* The operation names, qubit tuples and pulse names a caller passes; no
\* definition is ever added for the empty tuple.
OpNames == {"u1", "u3", "tmp"}
QubitTuples == {<<0>>, <<1>>}
PulseNames == {"test_pulse_1", "not_there"}

\* What a caller adds: a Schedule, a ParameterizedSchedule of it, a string.
TmpSchedule == PulseSchedule("tmp", << <<"ones", <<1>>>> >>)
TmpParameterized == ParameterizedSchedule(<<TmpSchedule>>, "tmp")
Addable == {TmpSchedule, TmpParameterized, NotASchedule}

\* *params of up to MaxParams values, and **kwparams with no keyword or
\* one.
ParamArgs == UNION {[1..n -> {1}] : n \in 0..MaxParams}
ParamKwargs ==
    UNION {[S -> {2}] : S \in {{}, {"P1"}, {"P2"}}}

\* What the caller has of its last call: the method, its arguments, the
\* _ops_def before it, and what it returned.
DefaultsCall(op, operation, qubits, schedule, params, kwparams, pulse) ==
    [op |-> op, operation |-> operation, qubits |-> qubits,
     schedule |-> schedule, params |-> params, kwparams |-> kwparams,
     pulse |-> pulse, before |-> cmd_def,
     ok |-> TRUE, result |-> NoSchedule, answer |-> FALSE,
     names |-> {}, tuples |-> {}]

\* A method returned, or raised, r: an exception is caught by the caller.
DefaultsReturned(call, r) ==
    /\ cmd_def' = r.ops_def
    /\ store' = r.fields
    /\ raised' = r.error
    /\ last' = [call EXCEPT !.ok = r.ok, !.result = r.schedule,
                            !.answer = r.answer, !.names = r.names,
                            !.tuples = r.tuples]
    /\ k' = k + 1
    /\ UNCHANGED <<heap, circuit, meas_map, pc, defs, avail, sched,
                   asap_start, alap_start, asap_sched>>

\* The caller makes up to MaxCalls calls; k counts them.
CanCallDefaults == pc = "defaults" /\ k < MaxCalls

CallHas ==
    /\ CanCallDefaults
    /\ \E operation \in OpNames, qubits \in QubitTuples :
         DefaultsReturned(
             DefaultsCall("has", operation, qubits, NoSchedule, <<>>, <<>>, ""),
             Outcome(TRUE, NoError, cmd_def, store, NoSchedule,
                     has(cmd_def, operation, qubits), {}, {}))

CallAssertHas ==
    /\ CanCallDefaults
    /\ \E operation \in OpNames, qubits \in QubitTuples :
         DefaultsReturned(
             DefaultsCall("assert_has", operation, qubits, NoSchedule, <<>>,
                          <<>>, ""),
             assert_has(cmd_def, store, operation, qubits))

CallGet ==
    /\ CanCallDefaults
    /\ \E operation \in OpNames, qubits \in QubitTuples,
          params \in ParamArgs, kwparams \in ParamKwargs :
         DefaultsReturned(
             DefaultsCall("get", operation, qubits, NoSchedule, params,
                          kwparams, ""),
             get(cmd_def, store, operation, qubits, params, kwparams))

CallGetParameters ==
    /\ CanCallDefaults
    /\ \E operation \in OpNames, qubits \in QubitTuples :
         DefaultsReturned(
             DefaultsCall("get_parameters", operation, qubits, NoSchedule,
                          <<>>, <<>>, ""),
             get_parameters(cmd_def, store, operation, qubits))

CallAdd ==
    /\ CanCallDefaults
    /\ \E operation \in {"tmp", "u3"}, qubits \in QubitTuples \cup {<<>>},
          schedule \in Addable :
         DefaultsReturned(
             DefaultsCall("add", operation, qubits, schedule, <<>>, <<>>, ""),
             add(cmd_def, store, operation, qubits, schedule))

CallRemove ==
    /\ CanCallDefaults
    /\ \E operation \in OpNames, qubits \in QubitTuples :
         DefaultsReturned(
             DefaultsCall("remove", operation, qubits, NoSchedule, <<>>,
                          <<>>, ""),
             remove(cmd_def, store, operation, qubits))

CallPop ==
    /\ CanCallDefaults
    /\ \E operation \in OpNames, qubits \in QubitTuples,
          params \in ParamArgs, kwparams \in ParamKwargs :
         DefaultsReturned(
             DefaultsCall("pop", operation, qubits, NoSchedule, params,
                          kwparams, ""),
             pop(cmd_def, store, operation, qubits, params, kwparams))

CallOps ==
    /\ CanCallDefaults
    /\ DefaultsReturned(
           DefaultsCall("ops", "", <<>>, NoSchedule, <<>>, <<>>, ""),
           ops(cmd_def, store))

CallOpQubits ==
    /\ CanCallDefaults
    /\ \E operation \in OpNames :
         DefaultsReturned(
             DefaultsCall("op_qubits", operation, <<>>, NoSchedule, <<>>,
                          <<>>, ""),
             op_qubits(cmd_def, store, operation))

CallQubitOps ==
    /\ CanCallDefaults
    /\ \E qubits \in QubitTuples \cup {<<>>} :
         DefaultsReturned(
             DefaultsCall("qubit_ops", "", qubits, NoSchedule, <<>>, <<>>, ""),
             qubit_ops(cmd_def, store, qubits))

CallReplacePulse ==
    /\ CanCallDefaults
    /\ \E name \in PulseNames :
         DefaultsReturned(
             DefaultsCall("replace_pulse", "", <<>>, NoSchedule, <<>>, <<>>,
                          name),
             replace_pulse(cmd_def, store, name, NewSamples))

\* defs = FakeOpenPulse2Q().defaults()
DefaultsInit ==
    /\ heap = <<>>
    /\ store = PulseDefaults(BackendPulseLibrary, BackendCommands)
    /\ cmd_def = init_ops_def(BackendPulseLibrary, BackendCommands, 1, <<>>)
    /\ last = [DefaultsCall("none", "", <<>>, NoSchedule, <<>>, <<>>, "")
                  EXCEPT !.before =
                      init_ops_def(BackendPulseLibrary, BackendCommands, 1, <<>>)]
    /\ circuit = <<>> /\ meas_map = <<>>
    /\ pc = "defaults"
    /\ defs = <<>> /\ k = 0 /\ avail = <<>> /\ sched = EmptySchedule
    /\ asap_start = <<>> /\ alap_start = <<>> /\ asap_sched = NoResult
    /\ raised = NoError

DefaultsNext ==
    \/ CallHas
    \/ CallAssertHas
    \/ CallGet
    \/ CallGetParameters
    \/ CallAdd
    \/ CallRemove
    \/ CallPop
    \/ CallOps
    \/ CallOpQubits
    \/ CallQubitOps
    \/ CallReplacePulse

DefaultsSpec == DefaultsInit /\ [][DefaultsNext]_vars

-----------------------------------------------------------------------------
(* Interval, Timeslot and TimeslotCollection: timeslots.py *)

\* Interval(begin, end): [ok, interval]; not ok stands for the PulseError.
NewInterval(begin, end) ==
    [ok |-> ~(begin < 0 \/ end < 0 \/ begin > end),
     interval |-> <<begin, end>>]

\* Interval.has_overlap: the two ranges share a time step.
HasOverlap(a, b) == a[1] < b[2] /\ b[1] < a[2]

\* Interval.shift(time)
interval_shift(self, time) == NewInterval(self[1] + time, self[2] + time)

\* Interval.starts_after(other), which is Interval.__gt__
starts_after(self, other) == self[1] >= other[2]

\* Timeslot(interval, channel)
Timeslot(interval, channel) == [interval |-> interval, channel |-> channel]

\* The _table of a new TimeslotCollection: channel -> list of intervals, the
\* channel of each Timeslot being the key it is filed under.
EmptyTable == [c \in Channels |-> <<>>]

\* TimeslotCollection.channels
table_channels(table) == {c \in Channels : table[c] # <<>>}

\* The loop of _merge_timeslot over reversed(ch_timeslots): the insertion
\* index, or PulseError.
RECURSIVE bubble(_, _, _)
bubble(ch_timeslots, interval, insert_idx) ==
    IF insert_idx = 0 THEN 0
    ELSE IF starts_after(interval, ch_timeslots[insert_idx]) THEN insert_idx
    ELSE IF HasOverlap(interval, ch_timeslots[insert_idx]) THEN PulseError
    ELSE bubble(ch_timeslots, interval, insert_idx - 1)

\* _merge_timeslot with the index the loop found.
merge_timeslot_at(table, timeslot, insert_idx) ==
    IF insert_idx = PulseError
    THEN [ok |-> FALSE, table |-> table, insert_idx |-> insert_idx]
    ELSE [ok |-> TRUE,
          table |-> [table EXCEPT ![timeslot.channel] =
                         InsertAt(@, insert_idx, timeslot.interval)],
          insert_idx |-> insert_idx]

\* TimeslotCollection._merge_timeslot(timeslot): [ok, table, insert_idx]
merge_timeslot(table, timeslot) ==
    merge_timeslot_at(table, timeslot,
        bubble(table[timeslot.channel], timeslot.interval,
               Len(table[timeslot.channel])))

\* The loop of _merge_timeslot_collection over the timeslots of a common
\* channel, from the one at timeslot_idx (0-based) on, and the append of the
\* rest.
RECURSIVE merge_common(_, _, _, _)
RECURSIVE merge_common_next(_, _, _, _)
merge_common(table, channel, other_ch_timeslots, timeslot_idx) ==
    IF timeslot_idx >= Len(other_ch_timeslots)
    THEN [ok |-> TRUE, table |-> table]
    ELSE merge_common_next(channel, other_ch_timeslots, timeslot_idx + 1,
             merge_timeslot(table,
                 Timeslot(other_ch_timeslots[timeslot_idx + 1], channel)))

merge_common_next_eager(channel, other_ch_timeslots, timeslot_idx, r) ==
    IF ~r.ok THEN [ok |-> FALSE, table |-> r.table]
    ELSE [ok |-> TRUE,
          table |-> [r.table EXCEPT ![channel] =
                        @ \o SubSeq(other_ch_timeslots, timeslot_idx + 1,
                                    Len(other_ch_timeslots))]]

\* ... once _merge_timeslot returned r.
merge_common_next(channel, other_ch_timeslots, timeslot_idx, r) ==
    IF ~r.ok THEN [ok |-> FALSE, table |-> r.table]
    ELSE IF r.insert_idx = Len(r.table[channel]) - 1
    THEN [ok |-> TRUE,
          table |-> [r.table EXCEPT ![channel] =
                        @ \o SubSeq(other_ch_timeslots, timeslot_idx + 1,
                                    Len(other_ch_timeslots))]]
    ELSE merge_common(r.table, channel, other_ch_timeslots, timeslot_idx)

\* The loop of _merge_timeslot_collection over other.channels.
RECURSIVE merge_channels(_, _, _, _)
RECURSIVE merge_channels_next(_, _, _, _)
merge_channels(table, other, common_channels, chans) ==
    IF chans = <<>> THEN [ok |-> TRUE, table |-> table]
    ELSE IF Head(chans) \in common_channels
    THEN merge_channels_next(other, common_channels, chans,
             merge_common(table, Head(chans), other[Head(chans)], 0))
    ELSE merge_channels(
             [table EXCEPT ![Head(chans)] = @ \o other[Head(chans)]],
             other, common_channels, Tail(chans))

merge_channels_next(other, common_channels, chans, r) ==
    IF r.ok THEN merge_channels(r.table, other, common_channels, Tail(chans))
    ELSE r

\* TimeslotCollection._merge_timeslot_collection(other): [ok, table]
merge_timeslot_collection(table, other) ==
    merge_channels(table, other,
                   table_channels(table) \cap table_channels(other),
                   InChannels(table_channels(other)))

\* An argument of the constructor: a Timeslot or a TimeslotCollection.
SlotArg(timeslot) == [collection |-> FALSE, timeslot |-> timeslot]
CollectionArg(table) == [collection |-> TRUE, table |-> table]

\* TimeslotCollection(*timeslots): [ok, table]
RECURSIVE NewCollection(_, _)
RECURSIVE NewCollectionNext(_, _)
NewCollection(table, timeslots) ==
    IF timeslots = <<>> THEN [ok |-> TRUE, table |-> table]
    ELSE IF Head(timeslots).collection
    THEN NewCollectionNext(timeslots,
             merge_timeslot_collection(table, Head(timeslots).table))
    ELSE NewCollectionNext(timeslots,
             merge_timeslot(table, Head(timeslots).timeslot))

NewCollectionNext(timeslots, r) ==
    IF r.ok THEN NewCollection(r.table, Tail(timeslots))
    ELSE [ok |-> FALSE, table |-> r.table]

\* TimeslotCollection.timeslots: the Timeslots of all channels, chained.
RECURSIVE table_timeslots(_, _)
table_timeslots(table, chans) ==
    IF chans = <<>> THEN <<>>
    ELSE [n \in 1..Len(table[Head(chans)]) |->
             Timeslot(table[Head(chans)][n], Head(chans))]
         \o table_timeslots(table, Tail(chans))

\* The inner loop of is_mergeable_with over ch_timeslots from index j on:
\* "conflict" for return False, else the value of `append` as a string.
RECURSIVE probe_interval(_, _, _, _)
probe_interval(ch_timeslots, other_ch_interval, j, appending) ==
    IF j > Len(ch_timeslots) THEN appending
    ELSE IF starts_after(other_ch_interval, ch_timeslots[j]) THEN appending
    ELSE IF HasOverlap(ch_timeslots[j], other_ch_interval) THEN "conflict"
    ELSE probe_interval(ch_timeslots, other_ch_interval, j + 1, "no_append")

\* The loop of is_mergeable_with over other_ch_timeslots from index n on:
\* FALSE iff it returns False.
RECURSIVE probe_channel(_, _, _)
RECURSIVE probe_channel_next(_, _, _, _)
probe_channel(ch_timeslots, other_ch_timeslots, n) ==
    IF n > Len(other_ch_timeslots) THEN TRUE
    ELSE probe_channel_next(ch_timeslots, other_ch_timeslots, n,
             probe_interval(ch_timeslots, other_ch_timeslots[n], 1, "append"))

probe_channel_next(ch_timeslots, other_ch_timeslots, n, found) ==
    IF found = "conflict" THEN FALSE
    ELSE IF found = "append" THEN TRUE
    ELSE probe_channel(ch_timeslots, other_ch_timeslots, n + 1)

\* TimeslotCollection.is_mergeable_with(timeslot_collection)
is_mergeable_with(table, other) ==
    \A channel \in table_channels(table) \cap table_channels(other) :
        probe_channel(table[channel], other[channel], 1)

\* TimeslotCollection.merge(timeslots): [ok, table]
merge(table, timeslots) ==
    NewCollection(EmptyTable, <<CollectionArg(table), CollectionArg(timeslots)>>)

\* The list `slots` of TimeslotCollection.shift: [ok, slots]; not ok if an
\* Interval could not be made.
shifted_slots(timeslots, time) ==
    [ok |-> \A n \in 1..Len(timeslots) :
                interval_shift(timeslots[n].interval, time).ok,
     slots |-> [n \in 1..Len(timeslots) |->
                   SlotArg(Timeslot(
                       interval_shift(timeslots[n].interval, time).interval,
                       timeslots[n].channel))]]

\* TimeslotCollection.shift(time) once the list `slots` is made.
collection_of(table, sl) ==
    IF sl.ok THEN NewCollection(EmptyTable, sl.slots)
    ELSE [ok |-> FALSE, table |-> table]

\* TimeslotCollection.shift(time): [ok, table]
collection_shift(table, time) ==
    collection_of(table,
        shifted_slots(table_timeslots(table, InChannels(table_channels(table))),
                      time))

\* TimeslotCollection.__eq__(other)
collection_eq(self, other) ==
    IF table_channels(self) = table_channels(other)
    THEN \A channel \in table_channels(self) :
             ~(self[channel] # self[channel])
    ELSE FALSE

-----------------------------------------------------------------------------
(* Calls on intervals and timeslot collections: specification TsSpec *)

\* The arguments a caller passes as begin, end and shift time.
TsTimes == (0 - 1)..MaxTime

\* The Interval objects that can be made from them.
Intervals == {iv \in TsTimes \X TsTimes : NewInterval(iv[1], iv[2]).ok}

Timeslots == {Timeslot(iv, c) : iv \in Intervals, c \in {d0, d1}}

\* TimeslotCollection(), TimeslotCollection(s1), TimeslotCollection(s1, s2)
CollectionArgs ==
    UNION {[1..n -> {SlotArg(t) : t \in Timeslots}] : n \in 0..MaxPairs}

\* A PulseError is not caught: the caller's run ends with it.
TsCanCall == pc = "timeslots" /\ last.ok

\* What the caller has of its last call: the operation, whether it returned
\* (ok) or raised, the collections it was called on (self, other: places in
\* store), the intervals it was called on (x, z), the time, and what it
\* returned: a new collection (result: its place in store), an interval
\* (interval) or a truth value (answer).
TsCall(op, ok) ==
    [op |-> op, ok |-> ok, self |-> 0, other |-> 0, x |-> <<0, 0>>,
     z |-> <<0, 0>>, time |-> 0, result |-> 0, interval |-> <<0, 0>>,
     answer |-> FALSE]

\* A call that leaves the caller with a new collection, or with a PulseError.
TsReturned(op, self, other, time, r) ==
    /\ store' = IF r.ok THEN Append(store, r.table) ELSE store
    /\ last' = [TsCall(op, r.ok) EXCEPT !.self = self, !.other = other,
                    !.time = time,
                    !.result = IF r.ok THEN Len(store) + 1 ELSE 0]
    /\ UNCHANGED <<heap, schedvars>>

\* A call on collections that returns a truth value.
TsAnswered(op, self, other, answer) ==
    /\ last' = [TsCall(op, TRUE) EXCEPT !.self = self, !.other = other,
                    !.answer = answer]
    /\ UNCHANGED <<heap, store, schedvars>>

\* A call on intervals that returns an interval, or raises a PulseError.
TsMade(op, x, time, r) ==
    /\ last' = [TsCall(op, r.ok) EXCEPT !.x = x, !.time = time,
                    !.interval = r.interval]
    /\ UNCHANGED <<heap, store, schedvars>>

\* A call on two intervals that returns a truth value.
TsCompared(op, x, z, answer) ==
    /\ last' = [TsCall(op, TRUE) EXCEPT !.x = x, !.z = z, !.answer = answer]
    /\ UNCHANGED <<heap, store, schedvars>>

\* Interval(begin, end)
CallInterval ==
    /\ TsCanCall /\ store = <<>>
    /\ \E begin, end \in TsTimes :
         TsMade("Interval", <<begin, end>>, 0, NewInterval(begin, end))

\* interval.shift(time)
CallIntervalShift ==
    /\ TsCanCall /\ store = <<>>
    /\ \E iv \in Intervals, time \in TsTimes :
         TsMade("Interval.shift", iv, time, interval_shift(iv, time))

\* x.has_overlap(z)
CallHasOverlap ==
    /\ TsCanCall /\ store = <<>>
    /\ \E x, z \in Intervals : TsCompared("has_overlap", x, z, HasOverlap(x, z))

\* _overlaps(x, z)
CallOverlaps ==
    /\ TsCanCall /\ store = <<>>
    /\ \E x, z \in Intervals : TsCompared("_overlaps", x, z, overlaps(x, z))

\* TimeslotCollection(*timeslots)
CallCollection ==
    /\ TsCanCall /\ Len(store) < MaxStore - 1
    /\ \E timeslots \in CollectionArgs :
         TsReturned("TimeslotCollection", 0, 0, 0,
                    NewCollection(EmptyTable, timeslots))

\* a.merge(b)
CallMerge ==
    /\ TsCanCall /\ Len(store) < MaxStore
    /\ \E i, j \in 1..Len(store) :
         TsReturned("merge", i, j, 0, merge(store[i], store[j]))

\* a.shift(time)
CallCollectionShift ==
    /\ TsCanCall /\ Len(store) < MaxStore
    /\ \E i \in 1..Len(store), time \in TsTimes :
         TsReturned("shift", i, 0, time, collection_shift(store[i], time))

\* a.is_mergeable_with(b)
CallIsMergeable ==
    /\ TsCanCall /\ Len(store) < MaxStore
    /\ \E i, j \in 1..Len(store) :
         TsAnswered("is_mergeable_with", i, j,
                    is_mergeable_with(store[i], store[j]))

\* a == b
CallCollectionEq ==
    /\ TsCanCall /\ Len(store) < MaxStore
    /\ \E i, j \in 1..Len(store) :
         TsAnswered("==", i, j, collection_eq(store[i], store[j]))

TsInit ==
    /\ heap = <<>>
    /\ store = <<>>
    /\ last = TsCall("none", TRUE)
    /\ circuit = <<>> /\ meas_map = <<>> /\ cmd_def = {}
    /\ pc = "timeslots"
    /\ defs = <<>> /\ k = 0 /\ avail = <<>> /\ sched = EmptySchedule
    /\ asap_start = <<>> /\ alap_start = <<>> /\ asap_sched = NoResult
    /\ raised = NoError

TsNext ==
    \/ CallInterval
    \/ CallIntervalShift
    \/ CallHasOverlap
    \/ CallOverlaps
    \/ CallCollection
    \/ CallMerge
    \/ CallCollectionShift
    \/ CallIsMergeable
    \/ CallCollectionEq

TsSpec == TsInit /\ [][TsNext]_vars

-----------------------------------------------------------------------------
(* Unions of three schedules in both groupings: specification AssocSpec *)

\* An instruction on the measurement channel of qubit 0, as long as P1.
M1 == Leaf("m1", 1, {m0})
AssocLeaves == {P1, Q1, M1}

\* The arguments of the constructor calls that make a schedule of up to n
\* instructions.
AssocRecipes(n) == UNION {[1..m -> Times \X AssocLeaves] : m \in 0..n}

\* The schedules A, B, C, constructed one after the other in heap h.
RECURSIVE BuildOperands(_, _, _)
RECURSIVE BuildOperand(_, _, _)
BuildOperands(h, recipes, built) ==
    IF recipes = <<>> THEN [ok |-> TRUE, heap |-> h, scheds |-> built]
    ELSE BuildOperand(recipes, built, NewSchedule(h, Head(recipes)))

BuildOperand(recipes, built, r) ==
    IF r.ok
    THEN BuildOperands(r.heap, Tail(recipes), Append(built, r.sched))
    ELSE [ok |-> FALSE, heap |-> r.heap, scheds |-> built]

AssocStarted(b) ==
    /\ b.ok
    /\ heap = b.heap
    /\ store = b.scheds

AssocInit ==
    /\ \E a \in AssocRecipes(MaxPairs), b, c \in AssocRecipes(1) :
          AssocStarted(BuildOperands(<<>>, <<a, b, c>>, <<>>))
    /\ last = NoCall
    /\ circuit = <<>> /\ meas_map = <<>> /\ cmd_def = {}
    /\ pc = "union_a_b"
    /\ defs = <<>> /\ k = 0 /\ avail = <<>> /\ sched = EmptySchedule
    /\ asap_start = <<>> /\ alap_start = <<>> /\ asap_sched = NoResult
    /\ raised = NoError

\* A union returned r: the caller keeps the result and goes on, or is left
\* with the PulseError.
AssocReturned(r, next) ==
    /\ heap' = r.heap
    /\ store' = IF r.ok THEN Append(store, r.sched) ELSE store
    /\ pc' = IF r.ok THEN next ELSE "assoc_failed"
    /\ UNCHANGED <<last, circuit, meas_map, cmd_def, defs, k, avail, sched,
                   asap_start, alap_start, asap_sched, raised>>

\* ab = a | b
UnionAB ==
    /\ pc = "union_a_b"
    /\ AssocReturned(union(heap, store[1], << <<0, store[2]>> >>), "union_b_c")

\* bc = b | c
UnionBC ==
    /\ pc = "union_b_c"
    /\ AssocReturned(union(heap, store[2], << <<0, store[3]>> >>), "union_ab_c")

\* ab | c
UnionLeft ==
    /\ pc = "union_ab_c"
    /\ AssocReturned(union(heap, store[4], << <<0, store[3]>> >>), "union_a_bc")

\* a | bc
UnionRight ==
    /\ pc = "union_a_bc"
    /\ AssocReturned(union(heap, store[1], << <<0, store[5]>> >>), "assoc_done")

AssocNext ==
    \/ UnionAB
    \/ UnionBC
    \/ UnionLeft
    \/ UnionRight

AssocSpec == AssocInit /\ [][AssocNext]_vars

-----------------------------------------------------------------------------
(* Properties of composition *)

SortedNoOverlap(list) ==
    \A i, j \in 1..Len(list) :
        i < j => /\ list[i][1] <= list[j][1]
                 /\ ~HasOverlap(list[i], list[j])

\* C1: after any sequence of successful composition calls, every channel's
\* interval list of every schedule is sorted by start time and its intervals
\* are pairwise non-overlapping.
C1_NoOverlapInvariant ==
    \A i \in 1..Len(store) : \A c \in Channels :
        SortedNoOverlap(TsOf(heap, store[i], c))

\* Some interval of `incoming`, shifted by t, overlaps one of `recorded` on
\* the same channel.
Conflict(recorded, incoming, t) ==
    \E c \in Channels :
        \E i \in 1..Len(recorded[c]), j \in 1..Len(incoming[c]) :
            HasOverlap(recorded[c][i],
                       <<incoming[c][j][1] + t, incoming[c][j][2] + t>>)

SinglePairCall ==
    /\ last.op \in {"insert", "union"}
    /\ Len(last.args) = 1

\* C2: insert(start_time, fragment), and union with that one pair, fails
\* with PulseError if and only if an interval of the fragment shifted by
\* start_time overlaps an interval recorded on the same channel of the
\* receiver.
C2_InsertFailsIffOverlap ==
    SinglePairCall =>
        (~last.ok <=> Conflict(last.self_before, last.before[1],
                               last.args[1][1]))

\* C3: no call changes what can be observed of a schedule the caller already
\* holds (its operands included): timeslots, duration, children and
\* instructions stay what they were, whether the call returned or raised.
C3_OperandsUnchanged ==
    [][\A i \in 1..Len(store) :
          /\ i <= Len(store')
          /\ store'[i] = store[i]
          /\ View(heap', store[i]) = View(heap, store[i])]_vars

\* A schedule returned by a call was composed again, with an instruction
\* merged into a channel the operand already uses.
C3_Witness ==
    /\ Len(store) = 3
    /\ last.ok
    /\ last.op = "insert"
    /\ last.self = 2
    /\ Len(TsOf(heap, store[3], d0)) > Len(TsOf(heap, store[2], d0))
    /\ Len(TsOf(heap, store[2], d0)) > Len(TsOf(heap, store[1], d0))
    /\ Len(TsOf(heap, store[1], d0)) > 0

-----------------------------------------------------------------------------
(* Properties of the scheduling passes *)

Placements == 1..Len(defs)
IsFragment(i) == defs[i].kind = "sched"
IsBarrier(i) == defs[i].kind = "barrier"
Duration(i) == defs[i].schedule.duration
Touches(i, Q) == defs[i].qubits \cap Q # {}

\* Both passes have returned.
BothDone == pc = "done"

\* The first pass has returned.
AsapDone == pc \in {"alap_begin", "alap_loop", "done"}

\* The operation at circuit position p was turned into placement i.
FragmentOf(p, i) == IsFragment(i) /\ p \in defs[i].pos

\* C4: the fragment of each circuit operation starts under
\* as_soon_as_possible no later than under as_late_as_possible.
C4_AsapNotAfterAlap ==
    BothDone =>
        \A i \in Placements : IsFragment(i) => asap_start[i] <= alap_start[i]

\* C5: under both passes, of two fragments whose qubit sets intersect, the
\* one of the operation that comes earlier in the circuit ends at or before
\* the start of the one of the later operation.
C5_CircuitOrderRespected ==
    BothDone =>
        \A p, q \in 1..Len(circuit) : \A i, j \in Placements :
            (/\ p < q
             /\ FragmentOf(p, i) /\ FragmentOf(q, j)
             /\ i # j
             /\ Touches(i, defs[j].qubits))
            => /\ asap_start[i] + Duration(i) <= asap_start[j]
               /\ alap_start[i] + Duration(i) <= alap_start[j]

\* C5 as the passes keep it: of two fragments whose qubit sets intersect, the
\* one placed earlier (a gate at its circuit position, a measurement fragment
\* where its queue is flushed) ends at or before the start of the other.
C5_PlacementOrderRespected ==
    BothDone =>
        \A i, j \in Placements :
            (/\ i < j
             /\ IsFragment(i) /\ IsFragment(j)
             /\ Touches(i, defs[j].qubits))
            => /\ asap_start[i] + Duration(i) <= asap_start[j]
               /\ alap_start[i] + Duration(i) <= alap_start[j]

\* A measurement requested before a gate is placed after it, and acquires
\* the gate's qubit.
C5_Witness ==
    /\ BothDone
    /\ \E i, j \in Placements :
          /\ i < j
          /\ IsFragment(i) /\ ~defs[i].measure
          /\ defs[j].measure
          /\ Touches(i, defs[j].qubits)
          /\ \E p \in defs[i].pos, q \in defs[j].pos : q < p

\* No placement before b touches a qubit of barrier b.
FreshBarrier(b) ==
    /\ IsBarrier(b)
    /\ \A i \in 1..(b - 1) : ~Touches(i, defs[b].qubits)

\* A barrier step of as_soon_as_possible leaves the schedule as it is.
AsapBarrierPlacesNothing ==
    (/\ pc = "asap_loop"
     /\ k < Len(defs)
     /\ IsBarrier(k + 1))
    => /\ sched' = sched
       /\ heap' = heap
       /\ Result(heap', sched') = Result(heap, sched)

\* What the barriers passed so far have done to the fragments placed so far.
AsapBarriersSynchronize ==
    pc = "asap_loop" =>
        /\ \A b, i, j \in 1..k :
              (/\ i < b /\ b < j
               /\ IsBarrier(b) /\ IsFragment(i) /\ IsFragment(j)
               /\ Touches(i, defs[b].qubits) /\ Touches(j, defs[b].qubits))
              => asap_start[i] + Duration(i) <= asap_start[j]
        /\ \A j \in 1..k :
              (/\ IsFragment(j)
               /\ \E b \in 1..(j - 1) : Touches(b, defs[j].qubits)
               /\ \A b \in 1..(j - 1) :
                     Touches(b, defs[j].qubits) => FreshBarrier(b))
              => asap_start[j] = 0

\* C6: under as_soon_as_possible a barrier over Q places no fragment and
\* takes no time; a fragment after it that touches Q starts no earlier than
\* the end of every fragment before it that touches Q; barriers over qubits
\* not used before leave the next fragment at time 0.
C6_AsapBarrier ==
    [][AsapBarrierPlacesNothing /\ AsapBarriersSynchronize']_vars

\* A barrier alone keeps a fragment behind one on another qubit.
C6_Witness ==
    /\ pc = "asap_loop"
    /\ \E b, i, j \in 1..k :
          /\ i < b /\ b < j
          /\ IsBarrier(b) /\ IsFragment(i) /\ IsFragment(j)
          /\ Touches(i, defs[b].qubits) /\ Touches(j, defs[b].qubits)
          /\ ~Touches(i, defs[j].qubits)
          /\ asap_start[j] = asap_start[i] + Duration(i)
          /\ \A m \in 1..(j - 1) : m # b => ~Touches(m, defs[j].qubits)

\* C7: under as_late_as_possible a fragment before a barrier over Q that
\* touches Q ends no later than the start of every fragment after the
\* barrier that touches Q, whether or not the reverse pass had already
\* placed something on each qubit of Q when it met the barrier.
C7_AlapBarrier ==
    BothDone =>
        \A b, i, j \in Placements :
            (/\ i < b /\ b < j
             /\ IsBarrier(b) /\ IsFragment(i) /\ IsFragment(j)
             /\ Touches(i, defs[b].qubits) /\ Touches(j, defs[b].qubits))
            => alap_start[i] + Duration(i) <= alap_start[j]

\* The placements after i that touch qubit q.
Successors(i, q) == {j \in Placements : j > i /\ q \in defs[j].qubits}

\* The start times that bound placement i from above through qubit q: the
\* start of the next fragment on q, or, when a barrier is next on q, what
\* bounds the barrier through each of its qubits.
RECURSIVE Bounds(_, _)
Bounds(i, q) ==
    IF Successors(i, q) = {} THEN {}
    ELSE LET j == SetMin(Successors(i, q))
         IN IF IsFragment(j) THEN {alap_start[j]}
            ELSE UNION {Bounds(j, r) : r \in defs[j].qubits}

\* C8: in the as_late_as_possible schedule a fragment followed by another
\* operation on one of its qubits ends exactly at the smallest start among
\* the next operations (or barrier synchronization points) on its qubits.
C8_AlapAsLateAsPossible ==
    BothDone =>
        \A i \in Placements :
            LET bounds == UNION {Bounds(i, q) : q \in defs[i].qubits}
            IN (IsFragment(i) /\ bounds # {})
               => alap_start[i] + Duration(i) = SetMin(bounds)

\* Nothing scheduled by the reverse pass so far starts before time 0.
AlapNonNegative ==
    pc \in {"alap_loop", "done"} =>
        /\ \A i \in Placements : i > Len(defs) - k => alap_start[i] >= 0
        /\ \A c \in Channels :
              \A n \in 1..Len(TsOf(heap, sched, c)) :
                  TsOf(heap, sched, c)[n][1] >= 0
        /\ \A n \in 1..Len(tree_instructions(sched, 0)) :
              tree_instructions(sched, 0)[n][1] >= 0

ShiftedBy(insts, t) == [n \in 1..Len(insts) |-> <<insts[n][1] + t, insts[n][2]>>]

\* A step that places a fragment moves what was scheduled forward by the
\* deficit d of the fragment's start time, and puts the fragment at 0 when
\* there is a deficit.
AlapDeficitShifts ==
    (/\ pc = "alap_loop" /\ pc' = "alap_loop"
     /\ k' = k + 1
     /\ IsFragment(Len(defs) - k))
    => \E d \in 0..Duration(Len(defs) - k) :
          /\ d > 0 => alap_start'[Len(defs) - k] = 0
          /\ \A i \in Placements :
                i > Len(defs) - k => alap_start'[i] = alap_start[i] + d
          /\ tree_instructions(sched', 0)
             = ShiftedBy(tree_instructions(sched, 0), d)
               \o ShiftedBy(tree_instructions(defs[Len(defs) - k].schedule, 0),
                            alap_start'[Len(defs) - k])

\* C9: the as_late_as_possible pass never places anything at a negative
\* time, after every step and in the final schedule, and the start-time
\* deficit of a new fragment is a forward shift of everything scheduled so
\* far.
C9_AlapNeverNegative ==
    [][AlapNonNegative' /\ AlapDeficitShifts]_vars

\* The reverse pass has moved a placed fragment forward.
C9_Witness ==
    /\ BothDone
    /\ \E i, j \in Placements :
          /\ i < j
          /\ IsFragment(i) /\ IsFragment(j)
          /\ alap_start[i] = 0
          /\ alap_start[j] > 0

\* The fragments in placement order, with their as_soon_as_possible starts.
AsapPlacements ==
    LET frags == SelectSeq([i \in Placements |-> i], IsFragment)
    IN [n \in 1..Len(frags) |->
           <<asap_start[frags[n]], defs[frags[n]].qubits,
             Duration(frags[n])>>]

\* C10: for the circuit u2(q0), u2(q1), barrier(q1), u2(q1),
\* barrier(q0,q1), cx(q0,q1), measure(q0,q1), with u2 of duration 28 and cx
\* of duration 22, as_soon_as_possible places the two first u2 at 0, the
\* second u2 on q1 at 28, cx at 56 and the combined measure at 78.
C10_AsapTestCircuit ==
    circuit = TestCircuit /\ cmd_def = Catalogue.cmd_def =>
        /\ pc \notin {"PulseError", "QiskitError"}
        /\ AsapDone =>
              /\ AsapPlacements
                 = << <<0, {0}, 28>>, <<0, {1}, 28>>, <<28, {1}, 28>>,
                      <<56, {0, 1}, 22>>, <<78, {0, 1}, 10>> >>
              /\ asap_sched.timeslots[d0] = << <<0, 28>>, <<56, 66>>, <<76, 78>> >>
              /\ asap_sched.timeslots[d1] = << <<0, 28>>, <<28, 56>>, <<66, 76>> >>
              /\ asap_sched.timeslots[m0] = << <<78, 88>> >>
              /\ asap_sched.duration = 88

\* as_soon_as_possible has returned the schedule of the test circuit.
C10_Witness ==
    /\ circuit = TestCircuit
    /\ pc = "alap_begin"
    /\ Len(asap_sched.instructions) = 9

\* The fragments in placement order, with their as_late_as_possible starts.
AlapPlacements ==
    LET frags == SelectSeq([i \in Placements |-> i], IsFragment)
    IN [n \in 1..Len(frags) |->
           <<alap_start[frags[n]], defs[frags[n]].qubits,
             Duration(frags[n])>>]

\* C11: for the circuit u2(q0), u2(q1), barrier(q1), u2(q1),
\* barrier(q0,q1), cx(q0,q1), measure(q0,q1), as_late_as_possible places
\* the u2 on q0 at 28, the two u2 on q1 at 0 and 28, cx at 56 and the
\* measure at 78: only the u2 on q0 is later than under as_soon_as_possible.
C11_AlapTestCircuit ==
    circuit = TestCircuit /\ cmd_def = Catalogue.cmd_def =>
        /\ pc \notin {"PulseError", "QiskitError"}
        /\ BothDone =>
              /\ AlapPlacements
                 = << <<28, {0}, 28>>, <<0, {1}, 28>>, <<28, {1}, 28>>,
                      <<56, {0, 1}, 22>>, <<78, {0, 1}, 10>> >>
              /\ TsOf(heap, sched, d0) = << <<28, 56>>, <<56, 66>>, <<76, 78>> >>
              /\ TsOf(heap, sched, d1) = << <<0, 28>>, <<28, 56>>, <<66, 76>> >>
              /\ TsOf(heap, sched, m0) = << <<78, 88>> >>
              /\ sched.duration = 88
              /\ \A i \in Placements :
                    IsFragment(i) =>
                        (alap_start[i] # asap_start[i] <=> i = 1)

\* as_late_as_possible has returned the schedule of the test circuit.
C11_Witness ==
    /\ circuit = TestCircuit
    /\ BothDone
    /\ Len(instructions(sched)) = 9

-----------------------------------------------------------------------------
(* Properties of the translation *)

Positions == 1..Len(circuit)
IsMeasure(p) == circuit[p].kind = "measure"

\* The operation at position r targets a qubit with a measure request that
\* no earlier operation has flushed.
RECURSIVE Flushes(_)
Flushes(r) ==
    \E p \in 1..(r - 1) :
        /\ IsMeasure(p)
        /\ QubitSet(circuit[p]) \cap QubitSet(circuit[r]) # {}
        /\ \A f \in (p + 1)..(r - 1) : ~Flushes(f)

\* The placements made for the operation at position p.
StepsOf(p) == {i \in Placements : p \in defs[i].pos}

\* Placement i ends at or before the start of placement j in both schedules
\* (a barrier only has to come later in placement order).
EndsBefore(i, j) ==
    /\ i < j
    /\ (IsFragment(i) /\ IsFragment(j))
       => /\ asap_start[i] + Duration(i) <= asap_start[j]
          /\ alap_start[i] + Duration(i) <= alap_start[j]

\* C12: measure requests are queued: every request ends up in exactly one
\* measurement step; two requests share a step exactly when no operation
\* between them (the later request included) targets a pending qubit; an
\* operation after a request that targets the requested qubit, a repeated
\* measure included, is placed after that request's measurement; requests
\* pending at the end of the circuit are flushed.
C12_MeasuresQueued ==
    BothDone =>
        /\ \A i \in Placements : defs[i].measure = (\E p \in defs[i].pos : IsMeasure(p))
        /\ \A p \in Positions :
              IsMeasure(p) =>
                  /\ Cardinality(StepsOf(p)) = 1
                  /\ \A i \in StepsOf(p) :
                        /\ IsFragment(i)
                        /\ QubitSet(circuit[p]) \subseteq defs[i].qubits
        /\ \A p, q \in Positions :
              (p < q /\ IsMeasure(p) /\ IsMeasure(q))
              => ((StepsOf(p) = StepsOf(q))
                  <=> (\A f \in (p + 1)..q : ~Flushes(f)))
        /\ \A p, r \in Positions :
              (/\ p < r
               /\ IsMeasure(p)
               /\ QubitSet(circuit[p]) \cap QubitSet(circuit[r]) # {})
              => /\ StepsOf(r) # {}
                 /\ \A i \in StepsOf(p), j \in StepsOf(r) : EndsBefore(i, j)

\* Two requests were combined into one step and a repeated measure made a
\* second step.
C12_Witness ==
    /\ BothDone
    /\ \E i, j \in Placements :
          /\ i < j
          /\ defs[i].measure /\ defs[j].measure
          /\ Cardinality(defs[i].pos) = 2
          /\ \E p \in defs[i].pos, q \in defs[j].pos :
                circuit[p].qubits = circuit[q].qubits

\* The measurement groups flushed by measurement step i, as qubit sets.
GroupsOf(i) ==
    {{meas_map[q][n] : n \in 1..Len(meas_map[q])} :
        q \in UNION {QubitSet(circuit[p]) : p \in defs[i].pos}}

\* The step as_soon_as_possible is about to take places a measurement step.
AsapFlush ==
    /\ pc = "asap_loop" /\ pc' = "asap_loop"
    /\ k < Len(defs)
    /\ defs[k + 1].measure

\* Group G's measurement occupies [t, t + MeasureDuration) on its channels.
GroupPlacedAt(h, s, G, t) ==
    \A q \in G :
        \E n \in 1..Len(TsOf(h, s, <<"m", q>>)) :
            TsOf(h, s, <<"m", q>>)[n] = <<t, t + MeasureDuration>>

\* C13: on a flush under as_soon_as_possible each flushed group's
\* measurement is placed at the maximum of available[q] over that group's
\* own qubits, whatever the availability of the other groups flushed with
\* it, and available[q] becomes start + duration for the group's qubits.
C13_GroupPlacedAlone ==
    [][AsapFlush =>
          \A G \in GroupsOf(k + 1) :
              /\ GroupPlacedAt(heap', sched', G, SetMax({avail[q] : q \in G}))
              /\ \A q \in G :
                    avail'[q] = SetMax({avail[r] : r \in G}) + MeasureDuration]_vars

\* C13 as the pass does it: the measurements of all groups flushed together
\* form one fragment, placed at the maximum of available[q] over the qubits
\* of all these groups; available[q] becomes that start plus the fragment's
\* duration for all of them.
C13_GroupsPlacedTogether ==
    [][AsapFlush =>
          LET all == UNION GroupsOf(k + 1)
              start == SetMax({avail[q] : q \in all})
          IN /\ asap_start'[k + 1] = start
             /\ \A G \in GroupsOf(k + 1) : GroupPlacedAt(heap', sched', G, start)
             /\ \A q \in all : avail'[q] = start + Duration(k + 1)
             /\ \A q \in Qubits \ all : avail'[q] = avail[q]]_vars

\* Two groups were flushed together, one of them free from time 0, and placed
\* later than 0.
C13_Witness ==
    /\ pc = "asap_loop"
    /\ k >= 1
    /\ defs[k].measure
    /\ Cardinality(GroupsOf(k)) = 2
    /\ asap_start[k] > 0
    /\ \E G \in GroupsOf(k) : \A i \in 1..(k - 1) : ~Touches(i, G)

\* The instructions of all catalogue entries.
CatalogueLeaves ==
    UNION {{CommandBodies[key][n][2] : n \in 1..Len(CommandBodies[key])} :
              key \in DOMAIN CommandBodies}

\* The indices of body at which instruction L stands.
Occurrences(body, L) == {n \in 1..Len(body) : body[n][2] = L}

\* How often L is among the (time, instruction) pairs insts.
CountIn(insts, L) == Cardinality(Occurrences(insts, L))

\* The measurement groups flushed by step i, as the catalogue's keys.
GroupKeys(i) ==
    {Key("measure", meas_map[q]) :
        q \in UNION {QubitSet(circuit[p]) : p \in defs[i].pos}}

\* How often L has to be in a schedule of the circuit: once for each of its
\* occurrences in the entry of each gate, and in the entry of each group of
\* each flush.
Expected(L) ==
    Cardinality(UNION {
        {<<p, n>> : n \in Occurrences(
                       CommandBodies[Key(circuit[p].name, circuit[p].qubits)], L)} :
        p \in {q \in Positions : circuit[q].kind = "gate"}})
    + Cardinality(UNION {
        UNION {{<<i, key, n>> : n \in Occurrences(CommandBodies[key], L)} :
                  key \in GroupKeys(i)} :
        i \in {j \in Placements : defs[j].measure}})

\* C14: the schedules of both passes hold one fragment for every gate of the
\* circuit and one measurement fragment per group per flush, nothing else
\* and nothing twice; so both hold the same fragments.
C14_NothingDroppedOrDuplicated ==
    BothDone =>
        /\ \A L \in CatalogueLeaves :
              /\ CountIn(asap_sched.instructions, L) = Expected(L)
              /\ CountIn(instructions(sched), L) = Expected(L)
        /\ \A n \in 1..Len(asap_sched.instructions) :
              asap_sched.instructions[n][2] \in CatalogueLeaves
        /\ \A n \in 1..Len(instructions(sched)) :
              instructions(sched)[n][2] \in CatalogueLeaves
        /\ Len(asap_sched.instructions) = Len(instructions(sched))

\* A circuit with a gate used twice and a measurement was scheduled by both
\* passes.
C14_Witness ==
    /\ BothDone
    /\ \E i, j, m \in Placements :
          /\ i < j
          /\ IsFragment(i) /\ IsFragment(j)
          /\ defs[i].schedule = defs[j].schedule
          /\ defs[m].measure
    /\ Len(instructions(sched)) >= 4

\* The circuit asks the catalogue for the entry (name, qubits): a gate on
\* these qubits, or a measurement of a qubit of this group.
Needed(name, qubits) ==
    \E p \in Positions :
        \/ /\ circuit[p].kind = "gate"
           /\ name = circuit[p].name
           /\ qubits = circuit[p].qubits
        \/ /\ circuit[p].kind = "measure"
           /\ name = "measure"
           /\ qubits = meas_map[circuit[p].qubits[1]]

NeedsUndefined ==
    \E p \in Positions :
        \/ /\ circuit[p].kind = "gate"
           /\ Key(circuit[p].name, circuit[p].qubits) \notin DOMAIN cmd_def
        \/ /\ circuit[p].kind = "measure"
           /\ Key("measure", meas_map[circuit[p].qubits[1]])
                  \notin DOMAIN cmd_def

RunFailed == pc \in {"PulseError", "QiskitError"}

\* A circuit that needs an undefined entry never gets to the placement loop;
\* the exception that ends the run names an entry the circuit needs and the
\* catalogue lacks, nothing was placed and no schedule was returned.
FailsBeforePlacement ==
    /\ NeedsUndefined => pc = "asap_begin" \/ RunFailed
    /\ RunFailed =>
          /\ Needed(raised.name, raised.qubits)
          /\ Key(raised.name, raised.qubits) \notin DOMAIN cmd_def
          /\ sched = EmptySchedule /\ k = 0
          /\ asap_start = <<>> /\ alap_start = <<>>
          /\ asap_sched = NoResult

-----------------------------------------------------------------------------
(* Properties of the time tracking of composed schedules *)

\* The intervals on channel c of the leaves below s, each moved by the sum of
\* the offsets on its path, in tree order.
LeafIntervals(s, c) ==
    LET on_c == SelectSeq(tree_instructions(s, 0),
                          LAMBDA p : c \in p[2].channels)
    IN [n \in 1..Len(on_c) |-> <<on_c[n][1], on_c[n][1] + on_c[n][2].duration>>]

\* How often x is an element of seq.
CountOf(seq, x) == Cardinality({n \in 1..Len(seq) : seq[n] = x})

SameElements(a, b) ==
    /\ Len(a) = Len(b)
    /\ \A n \in 1..Len(a) : CountOf(a, a[n]) = CountOf(b, a[n])

\* C16: the interval table of every schedule the caller holds is, channel by
\* channel, the collection of the intervals of its descendant leaves, each
\* moved by the offsets on its path: none missing, none without a leaf.
C16_TimeslotsAreLeafIntervals ==
    \A i \in 1..Len(store) : \A c \in Channels :
        SameElements(TsOf(heap, store[i], c), LeafIntervals(store[i], c))

\* A held schedule with a Schedule as a child at a positive offset, which
\* itself has a child at a positive offset.
C16_Witness ==
    \E i \in 1..Len(store) :
        /\ ~store[i].leaf
        /\ \E n \in 1..Len(store[i].children) :
              LET child == store[i].children[n] IN
              /\ child[1] > 0
              /\ ~child[2].leaf
              /\ \E m \in 1..Len(child[2].children) :
                    child[2].children[m][1] > 0
        /\ Len(TsOf(heap, store[i], d0)) >= 2

\* The latest interval end of s over all its channels, 0 without intervals.
LatestEnd(h, s) ==
    SetMax(UNION {{TsOf(h, s, c)[n][2] : n \in 1..Len(TsOf(h, s, c))} :
                     c \in Channels})

\* C17: the duration of every schedule the caller holds is the latest end of
\* its intervals over all channels, 0 if it has none; stop_time (the
\* duration) is ch_stop_time over all its channels.
C17_DurationIsLatestEnd ==
    \A i \in 1..Len(store) :
        /\ store[i].duration = LatestEnd(heap, store[i])
        /\ ~store[i].leaf =>
              store[i].duration
              = ch_stop_time(heap, store[i], ChannelsOf(store[i]))

-----------------------------------------------------------------------------
(* Properties of union and append *)

\* The (time, x) pairs of seq, each moved by t.
Moved(seq, t) == [n \in 1..Len(seq) |-> <<seq[n][1] + t, seq[n][2]>>]

\* The instructions of the arguments i.. of a union, each at its absolute time.
RECURSIVE ArgInstructions(_, _)
ArgInstructions(args, i) ==
    IF i > Len(args) THEN <<>>
    ELSE tree_instructions(args[i][2], args[i][1])
         \o ArgInstructions(args, i + 1)

\* What the arguments i.. of a union add to the children list.
RECURSIVE ArgChildren(_, _)
ArgChildren(args, i) ==
    IF i > Len(args) THEN <<>>
    ELSE (IF args[i][2].leaf THEN <<args[i]>>
          ELSE Moved(args[i][2].children, args[i][1]))
         \o ArgChildren(args, i + 1)

UnionSucceeded == last.op = "union" /\ last.ok

\* C18: after a successful S.union((t1, F1), ..., (tn, Fn)) the result holds
\* the instructions of S followed by every instruction (tau, x) of each Fi at
\* ti + tau, and its children are those of S followed by each instruction
\* argument and by the children of each Schedule argument with ti added.
C18_UnionInstructions ==
    UnionSucceeded =>
        /\ tree_instructions(last.result, 0)
           = tree_instructions(store[last.self], 0)
             \o ArgInstructions(last.args, 1)
        /\ instructions(last.result)
           = SortedByKey(tree_instructions(store[last.self], 0)
                         \o ArgInstructions(last.args, 1))
        /\ last.result.children
           = store[last.self].children \o ArgChildren(last.args, 1)

\* A union of a schedule with children into a schedule with children, at a
\* positive time, succeeded.
C18_Witness ==
    /\ UnionSucceeded
    /\ store[last.self].children # <<>>
    /\ \E i \in 1..Len(last.args) :
          /\ last.args[i][1] > 0
          /\ ~last.args[i][2].leaf
          /\ last.args[i][2].children # <<>>

AppendCalled == last.op = "append"

\* The schedule S appended to, the fragment F, and the maximum stop time of
\* S over the channels shared by S and F (0 if they share none).
AppendSelf == store[last.self]
AppendArg == last.args[1][2]
SharedStop ==
    SetMax(UNION {{TsOf(heap, AppendSelf, c)[n][2] :
                      n \in 1..Len(TsOf(heap, AppendSelf, c))} :
                  c \in ChannelsOf(AppendSelf) \cap ChannelsOf(AppendArg)})

\* The append put F into its result at time t (it has no result if F, a
\* schedule shifted below 0, then overlaps S).
AppendedAt(t) ==
    last.ok =>
        /\ last.result.children
           = AppendSelf.children \o ArgChildren(<< <<t, AppendArg>> >>, 1)
        /\ tree_instructions(last.result, 0)
           = tree_instructions(AppendSelf, 0) \o tree_instructions(AppendArg, t)

-----------------------------------------------------------------------------
(* Properties of the unions of three schedules *)

AssocRun ==
    pc \in {"union_a_b", "union_b_c", "union_ab_c", "union_a_bc",
            "assoc_done", "assoc_failed"}

\* No interval of x overlaps one of y on the same channel.
Free(x, y) ==
    ~Conflict(View(heap, x).timeslots, View(heap, y).timeslots, 0)

PairwiseFree ==
    /\ Free(store[1], store[2])
    /\ Free(store[1], store[3])
    /\ Free(store[2], store[3])

-----------------------------------------------------------------------------
(* Properties of flatten, shift, instructions and filter *)

FlattenCalled == last.op = "flatten"

\* flatten(r) returned f, and f equals r.
FlattenedEqual(r, f) ==
    /\ f.ok
    /\ schedule_eq(f.sched, r)
    /\ schedule_eq(r, f.sched)
    /\ f.sched.children = r.children

\* C21: S.flatten() succeeds for every schedule S, its children are
\* instructions only, their (time, instruction) pairs are S.instructions, and
\* flattening the result again gives an equal schedule.
C21_FlattenIdempotent ==
    FlattenCalled =>
        /\ last.ok
        /\ \A n \in 1..Len(last.result.children) :
              last.result.children[n][2].leaf
        /\ last.result.children = instructions(store[last.self])
        /\ instructions(last.result) = instructions(store[last.self])
        /\ FlattenedEqual(last.result, flatten(heap, last.result))

ShiftCalled == last.op = "shift" /\ last.ok

\* The shift back returned b, a schedule equal to S with the timeslots and
\* the duration of S.
ShiftedBackTo(S, b) ==
    /\ b.ok
    /\ schedule_eq(b.sched, S)
    /\ schedule_eq(S, b.sched)
    /\ View(b.heap, b.sched).timeslots = View(heap, S).timeslots
    /\ b.sched.duration = S.duration

\* C22: for every schedule S and every t >= 0, S.shift(t).shift(-t) is equal
\* to S and has the timeslots and the duration of S.
C22_ShiftThereAndBack ==
    ShiftCalled /\ last.args[1][1] >= 0 =>
        ShiftedBackTo(store[last.self],
                      shift(heap, last.result, 0 - last.args[1][1]))

\* A schedule with instructions on two channels was shifted by a positive
\* time.
C22_Witness ==
    /\ ShiftCalled
    /\ last.args[1][1] > 0
    /\ Len(TsOf(heap, store[last.self], d0)) >= 1
    /\ Len(TsOf(heap, store[last.self], d1)) >= 1

\* insts is in the order of the sort key of Schedule.instructions.
InKeyOrder(insts) ==
    \A i, j \in 1..Len(insts) :
        i < j => ~KeyLess(InstKey(insts[j]), InstKey(insts[i]))

\* The unions ab and ba both succeeded and compare equal.
UnionsEqual(ab, ba) ==
    /\ ab.ok /\ ba.ok
    /\ schedule_eq(ab.sched, ba.sched)
    /\ schedule_eq(ba.sched, ab.sched)

\* C23: instructions is sorted by (start time, duration, minimum channel
\* index), and schedules with the same (time, instruction) pairs have the
\* same instruction sequence however they were composed: A.union(B) equals
\* B.union(A) whenever A and B do not conflict.
C23_InstructionsDeterministic ==
    AssocRun =>
        /\ \A i \in 1..Len(store) : InKeyOrder(instructions(store[i]))
        /\ pc = "union_a_b" /\ Free(store[1], store[2]) =>
              UnionsEqual(union(heap, store[1], << <<0, store[2]>> >>),
                          union(heap, store[2], << <<0, store[1]>> >>))

FilterCalled == last.op = "filter"

\* The instruction p passes the filter the caller gave as arg.
Passes(arg, test(_, _), p) == arg.given => test(arg.value, p)

\* C24: filter returns a schedule holding exactly the (time, instruction)
\* pairs of the flattened receiver that pass every filter given, whether the
\* collection given is empty or not (channels: the instruction is on one of
\* them; intervals: it lies within one of them); the receiver itself is
\* returned only when no argument is given.
C24_FilterKeepsPassing ==
    FilterCalled =>
        /\ last.ok
        /\ IF ~last.channels.given /\ ~last.intervals.given
           THEN last.result = store[last.self]
           ELSE instructions(last.result)
                = SelectSeq(instructions(store[last.self]),
                            LAMBDA p :
                                /\ Passes(last.channels, only_channels, p)
                                /\ Passes(last.intervals, only_intervals, p))

-----------------------------------------------------------------------------
(* Properties of intervals and timeslot collections *)

TsRun == pc = "timeslots"

StrictlySortedNoOverlap(list) ==
    \A i, j \in 1..Len(list) :
        i < j => /\ list[i][1] < list[j][1]
                 /\ ~HasOverlap(list[i], list[j])

\* C25: every channel's list of every collection made by constructions and
\* merges, zero-duration intervals included, is strictly sorted by start time
\* and free of overlaps.
C25_CollectionsSorted ==
    TsRun =>
        \A i \in 1..Len(store) : \A c \in Channels :
            StrictlySortedNoOverlap(store[i][c])

ProbeCalled == TsRun /\ last.op = "is_mergeable_with"

\* C26: a.is_mergeable_with(b) returns True exactly when a.merge(b) succeeds
\* and False exactly when it raises the overlap PulseError.
C26_ProbeAgreesWithMerge ==
    ProbeCalled =>
        (last.answer <=> merge(store[last.self], store[last.other]).ok)

MergeCalled == TsRun /\ last.op = "merge"

\* The timeslots of a collection as constructor arguments, one by one.
OneByOne(table) ==
    [n \in 1..Len(table_timeslots(table, InChannels(table_channels(table))))
        |-> SlotArg(table_timeslots(table,
                        InChannels(table_channels(table)))[n])]

\* _merge_timeslot called on a copy of A for every timeslot of B in order.
MergedOneByOne(A, B) == NewCollection(A, OneByOne(B))

\* C27: a.merge(b), which merges b as a whole with the bulk append, fails
\* exactly when merging the timeslots of b one at a time fails, and otherwise
\* yields the same list on every channel.
C27_BulkAppendAsOneByOne ==
    MergeCalled =>
        /\ last.ok = MergedOneByOne(store[last.self], store[last.other]).ok
        /\ last.ok =>
               store[last.result] =
                   MergedOneByOne(store[last.self], store[last.other]).table

\* A merge that appended two timeslots of b behind those of a on a channel
\* both have.
C27_Witness ==
    /\ MergeCalled /\ last.ok
    /\ \E c \in table_channels(store[last.self]) :
           /\ Len(store[last.other][c]) >= 2
           /\ store[last.result][c] =
                  store[last.self][c] \o store[last.other][c]

\* Interval(begin, end) raises exactly when begin < 0, end < 0 or begin > end.
IntervalFailsIffInvalid ==
    TsRun /\ last.op = "Interval" =>
        (~last.ok <=> (last.x[1] < 0 \/ last.x[2] < 0 \/ last.x[1] > last.x[2]))

\* interval.shift(time) raises when begin + time < 0, and otherwise keeps the
\* duration.
IntervalShiftChecked ==
    TsRun /\ last.op = "Interval.shift" =>
        /\ last.x[1] + last.time < 0 => ~last.ok
        /\ last.ok => /\ last.interval[1] >= 0
                      /\ last.interval[2] - last.interval[1] =
                             last.x[2] - last.x[1]

\* The intervals of list b have the durations of those of list a.
SameDurations(a, b) ==
    /\ Len(a) = Len(b)
    /\ \A n \in 1..Len(a) : b[n][2] - b[n][1] = a[n][2] - a[n][1]

\* collection.shift(time) raises when a begin time would go below 0, and
\* otherwise keeps every duration.
CollectionShiftChecked ==
    TsRun /\ last.op = "shift" =>
        /\ (\E c \in Channels : \E n \in 1..Len(store[last.self][c]) :
                store[last.self][c][n][1] + last.time < 0) => ~last.ok
        /\ last.ok =>
               \A c \in Channels :
                   SameDurations(store[last.self][c], store[last.result][c])

\* schedule.shift(time) raises when a begin time would go below 0, and
\* otherwise keeps every duration.
ScheduleShiftChecked ==
    ~TsRun /\ last.op = "shift" =>
        /\ (\E c \in Channels :
                \E n \in 1..Len(TsOf(heap, store[last.self], c)) :
                    TsOf(heap, store[last.self], c)[n][1] + last.args[1][1] < 0)
               => ~last.ok
        /\ last.ok =>
               \A c \in Channels :
                   SameDurations(TsOf(heap, store[last.self], c),
                                 TsOf(heap, last.result, c))

\* C28: Interval(begin, end) fails exactly when begin < 0, end < 0 or
\* begin > end; the shift of an interval, of a timeslot collection and of a
\* schedule fails whenever it would move a begin time below 0, and a
\* successful shift keeps every duration.
C28_NoNegativeInterval ==
    /\ IntervalFailsIffInvalid
    /\ IntervalShiftChecked
    /\ CollectionShiftChecked
    /\ ScheduleShiftChecked

OverlapTested == TsRun /\ last.op \in {"has_overlap", "_overlaps"}

ZeroDuration(interval) == interval[1] = interval[2]

\* C29: the overlap tests x.has_overlap(z) and _overlaps(x, z) return False
\* whenever one of the two intervals has begin = end, also when it lies
\* strictly inside the other.
C29_ZeroDurationNeverOverlaps ==
    OverlapTested /\ (ZeroDuration(last.x) \/ ZeroDuration(last.z)) =>
        ~last.answer

EqCalled == TsRun /\ last.op = "=="

\* C30: a == b is True if and only if a and b have the same channels and the
\* same sequence of timeslots on every channel.
C30_EqualIffSameTimeslots ==
    EqCalled => (last.answer <=> store[last.self] = store[last.other])

-----------------------------------------------------------------------------
(* Properties of the entry point *)

ScheduleCalled == last.op = "schedule"

\* The call lacks the catalogue or the measurement map, and the backend to
\* take it from.
MissingConfiguration ==
    ~last.backend /\ (~last.cmd_def.given \/ ~last.meas_map.given)

\* The QiskitError "Must supply either a backend or ..." was raised.
ConfigurationError ==
    raised.type = "QiskitError" /\ raised.name \in {"CmdDef", "meas_map"}

\* C31: schedule(circuit, backend, cmd_def, meas_map) raises the QiskitError
\* "Must supply either a backend or ..." exactly when cmd_def or meas_map is
\* None and backend is None; with both supplied and no backend it goes on to
\* schedule the circuit.
C31_BackendOnlyWhenNeeded ==
    ScheduleCalled =>
        /\ ConfigurationError <=> MissingConfiguration
        /\ ~last.backend /\ last.cmd_def.given /\ last.meas_map.given
               => raised.type # "AttributeError"

\* The QiskitError "Scheduling method ... isn't recognized" was raised.
Unrecognized == raised.type = "QiskitError" /\ raised.name = "unrecognized"

\* C38: schedule_circuit raises the QiskitError "method isn't recognized" if
\* and only if method is neither None nor a key of `methods`, whatever is
\* raised inside a pass, and runs as_late_as_possible when method is None.
C38_UnrecognizedOnlyForMethod ==
    ScheduleCalled /\ last.backend =>
        /\ Unrecognized <=> last.method \notin {"None"} \cup DOMAIN methods
        /\ last.method = "None"
               => pc \in {"alap_begin", "alap_loop", "done", "QiskitError",
                          "PulseError", "KeyError"}
                  /\ asap_start = <<>>

\* The schedules of the catalogue are as they were before the call.
CatalogueUnchanged ==
    \A id \in DOMAIN Catalogue.heap : heap[id] = Catalogue.heap[id]

\* C32: a translation modifies neither the catalogue nor the measurement
\* map it was given, the nested qubit lists of the map included: after the
\* call the caller's list of lists is what it was before the call.
C32_InputsUnchanged ==
    ScheduleCalled =>
        /\ CatalogueUnchanged
        /\ last.meas_map_after = last.meas_map.value

-----------------------------------------------------------------------------
(* Properties of the passes on one fragment *)

\* The (time, instruction) pairs of insts, each `time` later.
Displaced(insts, time) ==
    {<<insts[n][1] + time, insts[n][2]>> : n \in 1..Len(insts)}

\* The (time, instruction) pairs of insts as a set.
PairsOf(insts) == Displaced(insts, 0)

\* One operation, turned into one fragment, was scheduled by both passes.
SingleOperation ==
    BothDone /\ Len(circuit) = 1 /\ Len(defs) = 1 /\ IsFragment(1)

\* C35: under both passes all instructions of one placed fragment are
\* displaced by the same offset, the start time of the fragment; and a
\* circuit of a single operation gives the same instruction sequence under
\* both passes, the one of its fragment at the fragment's own offsets.
C35_FragmentTimingKept ==
    /\ BothDone =>
          \A i \in Placements : IsFragment(i) =>
              /\ Displaced(instructions(defs[i].schedule), asap_start[i])
                     \subseteq PairsOf(asap_sched.instructions)
              /\ Displaced(instructions(defs[i].schedule), alap_start[i])
                     \subseteq PairsOf(instructions(sched))
    /\ SingleOperation =>
          /\ asap_sched.instructions = instructions(sched)
          /\ instructions(sched) = instructions(defs[1].schedule)

\* A single cx, whose fragment has instructions at several offsets, was
\* scheduled by both passes.
C35_Witness ==
    /\ SingleOperation
    /\ \E n, o \in 1..Len(instructions(sched)) :
          instructions(sched)[n][1] # instructions(sched)[o][1]

\* The channels the catalogue entry `key` uses, and its qubits.
EntryChannels(key) ==
    UNION {CommandBodies[key][n][2].channels : n \in 1..Len(CommandBodies[key])}
EntryQubits(key) == {key[2][q] : q \in 1..Len(key[2])}

\* Catalogue entries for disjoint qubit sets use disjoint channels, and so
\* do the measurement entries of different groups.
OwnChannels ==
    \A key, other \in DOMAIN CommandBodies :
        EntryQubits(key) \cap EntryQubits(other) = {}
            => EntryChannels(key) \cap EntryChannels(other) = {}

\* C39: with a catalogue whose fragments use channels of their own qubits
\* only and disjoint measurement groups, neither pass raises the PulseError
\* of an overlap, and on every channel the intervals of the schedule each
\* pass returns are sorted and pairwise non-overlapping.
C39_PassesNeverOverlap ==
    OwnChannels =>
        /\ raised # OverlapError
        /\ AsapDone =>
              \A c \in Channels : SortedNoOverlap(asap_sched.timeslots[c])
        /\ BothDone =>
              \A c \in Channels : SortedNoOverlap(TsOf(heap, sched, c))

\* Both passes have scheduled a circuit in which two fragments share a
\* channel.
C39_Witness ==
    /\ BothDone
    /\ \E c \in Channels : Len(TsOf(heap, sched, c)) >= 2
    /\ \E i \in Placements : defs[i].measure

-----------------------------------------------------------------------------
(* Properties of append on valid operands *)

\* S.append(F) was called with S and F that each have, on every channel,
\* a sorted list of pairwise non-overlapping intervals.
AppendOfValid ==
    /\ AppendCalled
    /\ \A c \in Channels :
          /\ SortedNoOverlap(last.self_before[c])
          /\ SortedNoOverlap(last.before[1][c])

\* The intervals of list, each `time` later.
MovedBy(list, time) ==
    [j \in 1..Len(list) |-> <<list[j][1] + time, list[j][2] + time>>]

\* The result of the append holds, on every channel, the intervals of S
\* followed by those of F moved by `time`.
AppendedTimeslots(time) ==
    \A c \in Channels :
        TsOf(heap, last.result, c)
            = last.self_before[c] \o MovedBy(last.before[1][c], time)

\* Every interval of F, moved by `time`, starts at or after the end of the
\* last interval S has on channel c.
AfterLastOf(c, time) ==
    \A j \in 1..Len(last.before[1][c]) :
        last.before[1][c][j][1] + time
            >= last.self_before[c][Len(last.self_before[c])][2]

\* The times at which an append can put F into S.
AppendTimes == 0..(AppendSelf.duration + AppendSelf.buffer)

\* C40: for S and F that each satisfy the no-overlap invariant, S.append(F)
\* raises no overlap error, and on every channel S and F share each interval
\* of F is, in the result, at or after the end of the last interval of S.
C40_AppendNeverFails ==
    AppendOfValid =>
        /\ last.ok
        /\ \E time \in AppendTimes :
              /\ AppendedTimeslots(time)
              /\ \A c \in Channels :
                    last.self_before[c] # <<>> /\ last.before[1][c] # <<>>
                        => AfterLastOf(c, time)

-----------------------------------------------------------------------------
(* Properties of the command catalogue, PulseDefaults *)

\* The last call of the caller was method `op` of the PulseDefaults object.
DefaultsCalled(op) == pc = "defaults" /\ last.op = op

\* The (operation, qubits) pair of the last call was defined before it.
WasDefined == has(last.before, last.operation, last.qubits)

\* Every pair but the one of the last call is as it was before the call.
OtherPairsUnchanged ==
    \A operation \in OpNames, qubits \in QubitTuples :
        <<operation, qubits>> # <<last.operation, last.qubits>> =>
            /\ has(cmd_def, operation, qubits)
                   <=> has(last.before, operation, qubits)
            /\ has(cmd_def, operation, qubits) =>
                   cmd_def[operation][qubits] = last.before[operation][qubits]

\* The last call raised PulseError and left the catalogue as it was.
RaisedPulseError ==
    ~last.ok /\ raised.type = "PulseError" /\ cmd_def = last.before

\* After remove or pop of a defined pair the pair is undefined and the other
\* pairs are unchanged.
RemovedIsUndefined ==
    (DefaultsCalled("remove") \/ DefaultsCalled("pop")) /\ WasDefined =>
        /\ ~has(cmd_def, last.operation, last.qubits)
        /\ OtherPairsUnchanged

\* get, get_parameters, remove, pop and assert_has of an undefined pair
\* raise PulseError and change nothing.
UndefinedIsRefused ==
    /\ last.op \in {"get", "get_parameters", "remove", "pop", "assert_has"}
    /\ pc = "defaults"
    /\ ~WasDefined
    => RaisedPulseError

\* add with an empty qubit tuple or a value that is no schedule raises
\* PulseError and changes nothing.
InvalidAddIsRefused ==
    /\ DefaultsCalled("add")
    /\ last.qubits = <<>> \/ last.schedule.kind = "str"
    => RaisedPulseError

\* What get(operation, qubits) of the last call's pair returns now.
GetNow == get(cmd_def, store, last.operation, last.qubits, <<>>, <<>>)

\* C33 as stated: the catalogue is a map keyed by (operation, qubits); after
\* add(op, q, s), has(op, q) is true and get(op, q) returns s, whatever s.
C33_CatalogueIsMap ==
    /\ DefaultsCalled("add") /\ last.ok =>
          /\ has(cmd_def, last.operation, last.qubits)
          /\ GetNow.ok /\ GetNow.schedule = last.schedule
    /\ RemovedIsUndefined
    /\ UndefinedIsRefused
    /\ InvalidAddIsRefused

\* C33: the catalogue is a map keyed by (operation, qubits); after
\* add(op, q, s), has(op, q) is true and get(op, q) returns s if s is a
\* Schedule, and the Schedule that binding s to no values gives if s is a
\* ParameterizedSchedule; remove and pop undefine the pair only; calls on
\* an undefined pair and invalid adds raise PulseError and change nothing.
C33_CatalogueIsMapOfBound ==
    /\ DefaultsCalled("add") /\ last.ok =>
          /\ has(cmd_def, last.operation, last.qubits)
          /\ cmd_def[last.operation][last.qubits] = last.schedule
          /\ OtherPairsUnchanged
          /\ last.schedule.kind = "Schedule" =>
                 GetNow.ok /\ GetNow.schedule = last.schedule
          /\ last.schedule.kind = "ParameterizedSchedule" =>
                 /\ GetNow.ok = bind_parameters(last.schedule, <<>>, <<>>).ok
                 /\ GetNow.schedule
                        = bind_parameters(last.schedule, <<>>, <<>>).schedule
    /\ RemovedIsUndefined
    /\ UndefinedIsRefused
    /\ InvalidAddIsRefused

\* A definition was added, and then popped while another pair was defined.
C33_Witness ==
    /\ DefaultsCalled("pop") /\ WasDefined /\ last.ok
    /\ last.result.name = "tmp"
    /\ \E qubits \in QubitTuples : has(cmd_def, "u3", qubits)

\* The names that have a definition for at least one qubit tuple.
DefinedNames ==
    {operation \in DOMAIN cmd_def : DOMAIN cmd_def[operation] # {}}

\* C36: after any sequence of calls, ops() lists exactly the operation
\* names that have a definition for at least one qubit tuple.
C36_OpsListsDefinedNames ==
    pc = "defaults" => ops(cmd_def, store).names = DefinedNames

\* The definition uses the named pulse of the library.
Uses(definition, pulse) ==
    \E n \in 1..Len(definition.schedules) : definition.schedules[n][1] = pulse

\* C37: replace_pulse(name, samples) changes has(op, q) for no pair, changes
\* no definition that does not use the pulse, and raises PulseError leaving
\* the catalogue unchanged if the pulse is not in the library.
C37_ReplaceOnlyUsers ==
    DefaultsCalled("replace_pulse") =>
        /\ \A operation \in OpNames, qubits \in QubitTuples :
              /\ has(cmd_def, operation, qubits)
                     <=> has(last.before, operation, qubits)
              /\ (/\ has(last.before, operation, qubits)
                  /\ ~Uses(last.before[operation][qubits], last.pulse))
                 => /\ has(cmd_def, operation, qubits)
                    /\ cmd_def[operation][qubits]
                           = last.before[operation][qubits]
        /\ last.pulse \notin DOMAIN store.pulse_library => RaisedPulseError

\* A parameterized definition was bound by the last call, a get or a pop.
BoundByCall ==
    /\ DefaultsCalled("get") \/ DefaultsCalled("pop")
    /\ WasDefined
    /\ last.before[last.operation][last.qubits].kind
           = "ParameterizedSchedule"

\* The parameters a call with *params and **kwparams gives a value
\* positionally, the first Len(params) ones.
Positional(parameters, params) ==
    {parameters[n] : n \in 1..Min(Len(parameters), Len(params))}

\* The values do not match the parameters: more positional values than
\* parameters, a parameter without a value, a keyword that is no parameter,
\* a parameter given both positionally and by keyword.
Mismatch(parameters, params, kwparams) ==
    \/ Len(params) > Len(parameters)
    \/ \E p \in Range(parameters) :
          p \notin Positional(parameters, params) \cup DOMAIN kwparams
    \/ \E key \in DOMAIN kwparams : key \notin Range(parameters)
    \/ \E key \in DOMAIN kwparams : key \in Positional(parameters, params)

\* C34: binding a parameterized fragment raises PulseError on every
\* mismatch of values and parameters, and returns a Schedule only when
\* every parameter receives exactly one value.
C34_BindFailsOnMismatch ==
    BoundByCall =>
        /\ Mismatch(last.before[last.operation][last.qubits].parameters,
                    last.params, last.kwparams)
               => ~last.ok /\ raised.type = "PulseError"
        /\ last.ok =>
               /\ last.result.kind = "Schedule"
               /\ ~Mismatch(last.before[last.operation][last.qubits].parameters,
                            last.params, last.kwparams)

====
